---- MODULE Spec2Model ----
(***************************************************************************)
(* Model of the damages-calculation and red-line-interception core of      *)
(* MCP-Legal-China (Logic.py, contract_logic.py, legal_resources.py,       *)
(* server.py).                                                             *)
(*                                                                         *)
(* Numbers: Python floats are modelled as exact rationals in lowest terms  *)
(* (records with numerator n and positive denominator d), so arithmetic is *)
(* the real-number arithmetic the float code approximates.                 *)
(* Python values are tagged records: num, str, dict, none, weight.         *)
(* Strings are kept as (prefix, rest) where prefix is the longest of       *)
(* "", "legal://", "legal://pid/" the string starts with.                  *)
(* Log and error message texts are kept as their fixed text; the numbers   *)
(* interpolated into them are dropped.                                     *)
(***************************************************************************)
EXTENDS Integers, Sequences, FiniteSets, TLC

\* ------------------------------------------------------------------------
\* Numbers
\* ------------------------------------------------------------------------

Abs(x) == IF x < 0 THEN -x ELSE x

RECURSIVE GCD(_, _)
GCD(a, b) == IF b = 0 THEN a ELSE GCD(b, a % b)

\* a number n/d, d # 0, in lowest terms with positive denominator
R(n, d) ==
    LET s == IF d < 0 THEN -1 ELSE 1
        g == GCD(Abs(n), Abs(d))
    IN  [t |-> "num", n |-> (s * n) \div g, d |-> (s * d) \div g]

RAdd(a, b) == R(a.n * b.d + b.n * a.d, a.d * b.d)
RSub(a, b) == R(a.n * b.d - b.n * a.d, a.d * b.d)
RMul(a, b) == R(a.n * b.n, a.d * b.d)
RDiv(a, b) == R(a.n * b.d, a.d * b.n)
RLt(a, b) == a.n * b.d < b.n * a.d
RLe(a, b) == a.n * b.d <= b.n * a.d
RMax(a, b) == IF RLt(a, b) THEN b ELSE a
RMin(a, b) == IF RLt(b, a) THEN b ELSE a

Zero == R(0, 1)
One == R(1, 1)
Two == R(2, 1)

\* ------------------------------------------------------------------------
\* Python values
\* ------------------------------------------------------------------------

None == [t |-> "none"]
PyStr(s) == [t |-> "str", prefix |-> "", rest |-> s]
PidUri(h) == [t |-> "str", prefix |-> "legal://pid/", rest |-> h]
LegalUri(s) == [t |-> "str", prefix |-> "legal://", rest |-> s]
PyDict(f) == [t |-> "dict", f |-> f]
EmptyDict == PyDict(<<>>)

IsNum(v) == v.t = "num"
IsStr(v) == v.t = "str"
IsDict(v) == v.t = "dict"

\* dict.get(key, default) on a mapping kept as a function
Get(f, key, default) == IF key \in DOMAIN f THEN f[key] ELSE default

\* Python truthiness of a value
Truthy(v) ==
    CASE v.t = "none" -> FALSE
      [] v.t = "num" -> v.n # 0
      [] v.t = "str" -> ~(v.prefix = "" /\ v.rest = "")
      [] v.t = "dict" -> DOMAIN v.f # {}
      [] OTHER -> TRUE

\* the outcome of a call: a returned value or a raised exception
Return(v) == [kind |-> "return", value |-> v]
Raise(e) == [kind |-> "raise", error |-> e]

\* ------------------------------------------------------------------------
\* errors.py
\* ------------------------------------------------------------------------

INVALID_PARAMS == -32602
INTERNAL_ERROR == -32001
ELICITATION_REQUIRED == 3001

AppError(code, name, message, details) ==
    [code |-> code, name |-> name, message |-> message,
     details |-> IF DOMAIN details = {} THEN <<>> ELSE details]

InvalidParamsError(message, details) ==
    AppError(INVALID_PARAMS, "INVALID_PARAMS", message, details)

InternalError(message) ==
    AppError(INTERNAL_ERROR, "INTERNAL_ERROR", message, <<>>)

ElicitationRequiredError(message) ==
    AppError(ELICITATION_REQUIRED, "ELICITATION_REQUIRED", message, <<>>)

\* AppError.to_dict
to_dict(e) ==
    [code |-> e.code, error |-> e.name, message |-> e.message, details |-> e.details]

\* ------------------------------------------------------------------------
\* Logging (logger_config.py): an entry is a level, a fixed text and the
\* trace id attached through extra, None when no trace id is attached
\* ------------------------------------------------------------------------

LogEntry(level, text, trace_id) ==
    [level |-> level, text |-> text, trace_id |-> trace_id]

\* ------------------------------------------------------------------------
\* Logic.py
\* ------------------------------------------------------------------------

LPR == R(345, 10000)
LPR_MULTIPLIER == R(4, 1)
GAMMA_COEFFICIENT == R(3, 10)
DEFAULT_TOTAL_MONTHS == R(12, 1)

LENDING_LEGAL_BASIS == "SPC Provisions on Private Lending Cases"
LABOR_LEGAL_BASIS == "Labor Contract Law Article 22"
CONSUMER_LEGAL_BASIS == "Consumer Rights Protection Law"

DiscretionaryWeight(performance_ratio, fault_score, expectation_interest_included, is_consumer_contract) ==
    [t |-> "weight",
     performance_ratio |-> performance_ratio,
     fault_score |-> fault_score,
     expectation_interest_included |-> expectation_interest_included,
     is_consumer_contract |-> is_consumer_contract]

\* a lookup that answers a failed synchronisation with the static rate
get_latest_lpr_static_fallback(simulate_db_failure) ==
    [out |-> Return(LPR),
     log |-> IF simulate_db_failure
             THEN <<LogEntry("error", "legal database sync failed", None)>>
             ELSE <<>>]

\* RedLineInterceptors.get_latest_lpr
get_latest_lpr(simulate_db_failure) ==
    IF simulate_db_failure
    THEN [out |-> Raise(InternalError("legal database sync failed, switched to static source")),
          log |-> <<LogEntry("error", "legal database sync failed", None)>>]
    ELSE [out |-> Return(LPR), log |-> <<>>]

\* the rejection raised for a rate above the limit
LendingViolation(rate, limit) ==
    Raise(InvalidParamsError("agreed rate exceeds the legally protected cap",
                             [risk_level |-> "Critical",
                              legal_basis |-> LENDING_LEGAL_BASIS,
                              limit |-> limit,
                              provided |-> rate]))

\* the dictionary returned for a rate within the limit
LendingPass(rate) ==
    Return([triggered |-> FALSE,
            risk_level |-> "Low",
            message |-> "rate within the legally protected range",
            capped_value |-> rate])

\* a comparison that clamps a rate above the limit instead of rejecting it
CompareWithLimit_clamping(rate, limit) ==
    Return([triggered |-> RLt(limit, rate),
            risk_level |-> "Low",
            message |-> "rate within the legally protected range",
            capped_value |-> RMin(rate, limit)])

\* a comparison that reports a quarter of the limit, the benchmark rate itself
CompareWithLimit_lpr_limit(rate, limit) ==
    IF RLt(limit, rate)
    THEN LendingViolation(rate, RDiv(limit, LPR_MULTIPLIER))
    ELSE LendingPass(rate)

\* the comparison of check_private_lending_interest, once limit = lpr * 4
CompareWithLimit(rate, limit) ==
    IF RLt(limit, rate) THEN LendingViolation(rate, limit) ELSE LendingPass(rate)

\* check_private_lending_interest after the lookup: a failed lookup is re-raised
AfterLookup(rate, lookup) ==
    IF lookup.out.kind = "raise"
    THEN lookup
    ELSE [out |-> CompareWithLimit(rate, RMul(lookup.out.value, LPR_MULTIPLIER)),
          log |-> lookup.log]

\* RedLineInterceptors.check_private_lending_interest
check_private_lending_interest(rate, simulate_db_failure) ==
    AfterLookup(rate, get_latest_lpr(simulate_db_failure))

\* a labor check that forgets to prorate by the remaining months
check_labor_contract_limit_unprorated(training_cost, total_months, remaining_months) ==
    IF RLe(total_months, Zero)
    THEN [out |-> Raise(InvalidParamsError("total service months must be greater than 0",
                                           [total_months |-> total_months])),
          log |-> <<>>]
    ELSE [out |-> Return(RDiv(training_cost, total_months)), log |-> <<>>]

\* RedLineInterceptors.check_labor_contract_limit
check_labor_contract_limit(training_cost, total_months, remaining_months) ==
    IF RLe(total_months, Zero)
    THEN [out |-> Raise(InvalidParamsError("total service months must be greater than 0",
                                           [total_months |-> total_months])),
          log |-> <<>>]
    ELSE [out |-> Return(RMul(RDiv(training_cost, total_months), remaining_months)),
          log |-> <<>>]

\* the result dictionary as first built by calculate_liquidated_damages
InitialResult(scenario, causal_trace_id) ==
    [scenario |-> scenario,
     adjustments |-> <<>>,
     final_suggestion |-> Zero,
     causal_trace_id |-> causal_trace_id]

LaborAdjustment ==
    [message |-> "labor contract penalty is capped at the training cost of the unserved period",
     legal_basis |-> LABOR_LEGAL_BASIS]

ConsumerAdjustment ==
    [type |-> "consumer_protection",
     message |-> "consumer contract, court should lean towards protecting the consumer",
     legal_basis |-> CONSUMER_LEGAL_BASIS]

\* the private_lending branch after the check: final_suggestion is the rate
LendingResult(result, rate, check) ==
    IF check.out.kind = "raise"
    THEN check
    ELSE [out |-> Return([result EXCEPT !.final_suggestion = rate]),
          log |-> check.log]

\* the private_lending branch of calculate_liquidated_damages
PrivateLendingBranch(a, result) ==
    LendingResult(result, Get(a, "rate", Zero),
                  check_private_lending_interest(Get(a, "rate", Zero),
                                                 Get(a, "simulate_db_failure", FALSE)))

\* the labor_contract branch after the check: the ceiling is applied directly
LaborResult(result, check) ==
    IF check.out.kind = "raise"
    THEN check
    ELSE [out |-> Return([result EXCEPT
                             !.adjustments = Append(@, LaborAdjustment),
                             !.final_suggestion = check.out.value]),
          log |-> check.log]

\* the labor_contract branch of calculate_liquidated_damages
LaborContractBranch(a, result) ==
    LaborResult(result,
                check_labor_contract_limit(Get(a, "training_cost", Zero),
                                           Get(a, "total_months", DEFAULT_TOTAL_MONTHS),
                                           Get(a, "remaining_months", Zero)))

\* the floor applied to L
FloorAtZero(L) == IF RLt(L, Zero) THEN Zero ELSE L

\* a base loss without the floor at zero
BaseLoss_unfloored(actual_loss, expectation_loss, mitigation_benefit) ==
    RSub(RAdd(actual_loss, expectation_loss), mitigation_benefit)

\* L = actual_loss + expectation_loss - mitigation_benefit, floored at 0
BaseLoss(actual_loss, expectation_loss, mitigation_benefit) ==
    FloorAtZero(RSub(RAdd(actual_loss, expectation_loss), mitigation_benefit))

\* the gamma_calculation dictionary
GammaComponents(w1, w2) ==
    ("w1 (1 - performance)" :> w1)
    @@ ("w2 (fault_score)" :> w2)
    @@ ("gamma" :> RMul(RMul(GAMMA_COEFFICIENT, w1), w2))

\* a gamma computation that takes the performed share as w1
GammaCalculation_performed_share(dw) ==
    GammaComponents(FloorAtZero(dw.performance_ratio), dw.fault_score)

\* a gamma computation that doubles the fault factor for a consumer contract
GammaCalculation_consumer_markup(dw) ==
    GammaComponents(FloorAtZero(RSub(One, dw.performance_ratio)),
                    IF dw.is_consumer_contract THEN RMul(Two, dw.fault_score)
                                               ELSE dw.fault_score)

\* the gamma computation for a weight object
GammaCalculation(dw) ==
    GammaComponents(FloorAtZero(RSub(One, dw.performance_ratio)), dw.fault_score)

\* the annotations appended for a weight object
WeightAdjustments(dw) ==
    IF dw.is_consumer_contract THEN <<ConsumerAdjustment>> ELSE <<>>

\* the general branch when a weight object is supplied
WeightedResult(result, L, dw, calc) ==
    [out |-> Return([result EXCEPT
                        !.adjustments = @ \o WeightAdjustments(dw),
                        !.final_suggestion = RMul(L, RAdd(One, calc["gamma"]))]
                    @@ ("base_loss_L" :> L)
                    @@ ("gamma_calculation" :> calc)),
     log |-> <<>>]

\* the general branch when no weight object is supplied: gamma is 0
UnweightedResult(result, L) ==
    [out |-> Return([result EXCEPT !.final_suggestion = RMul(L, RAdd(One, Zero))]
                    @@ ("base_loss_L" :> L)),
     log |-> <<>>]

\* the general branch once L is computed
GeneralResult(result, L, discretionary_weight) ==
    IF Truthy(discretionary_weight)
    THEN WeightedResult(result, L, discretionary_weight,
                        GammaCalculation(discretionary_weight))
    ELSE UnweightedResult(result, L)

\* the general branch of calculate_liquidated_damages
GeneralBranch(a, result) ==
    GeneralResult(result,
                  BaseLoss(a["actual_loss"],
                           Get(a, "expectation_loss", Zero),
                           Get(a, "mitigation_benefit", Zero)),
                  Get(a, "discretionary_weight", None))

\* a dispatch that rejects every tag it does not know
Dispatch_closed(a, scenario, result) ==
    IF scenario = PyStr("private_lending") THEN PrivateLendingBranch(a, result)
    ELSE IF scenario = PyStr("labor_contract") THEN LaborContractBranch(a, result)
    ELSE IF scenario = PyStr("general_contract") THEN GeneralBranch(a, result)
    ELSE [out |-> Raise(InvalidParamsError("unknown scenario", <<>>)), log |-> <<>>]

\* the scenario dispatch of calculate_liquidated_damages
Dispatch(a, scenario, result) ==
    IF scenario = PyStr("private_lending") THEN PrivateLendingBranch(a, result)
    ELSE IF scenario = PyStr("labor_contract") THEN LaborContractBranch(a, result)
    ELSE GeneralBranch(a, result)

\* the log entry written on entry, ahead of what the branch logs
WithStartLog(causal_trace_id, branch) ==
    [out |-> branch.out,
     log |-> <<LogEntry("info", "Starting calculation for scenario", causal_trace_id)>>
             \o branch.log]

\* calculate_liquidated_damages with its defaults applied
Calculation(a, scenario, causal_trace_id) ==
    WithStartLog(causal_trace_id,
                 Dispatch(a, scenario, InitialResult(scenario, causal_trace_id)))

\* calculate_liquidated_damages; a is the mapping of the keyword arguments
\* the caller supplied (actual_loss is required)
calculate_liquidated_damages(a) ==
    Calculation(a, Get(a, "scenario", PyStr("general_contract")),
                Get(a, "causal_trace_id", None))

\* ------------------------------------------------------------------------
\* legal_resources.py: the identifier store read by the resolver.  A store
\* maps a handle to its record; the stored content is a Python value.
\* ------------------------------------------------------------------------

PID_PREFIX == "legal://pid/"
MCP_LEGAL_PREFIX == "legal://"

StartsWithPidPrefix(v) == v.prefix = PID_PREFIX
StartsWithLegal(v) == v.prefix \in {MCP_LEGAL_PREFIX, PID_PREFIX}

\* LegalResourceProvider.get_resource_by_pid
get_resource_by_pid(store, pid_uri) ==
    IF ~StartsWithPidPrefix(pid_uri)
    THEN None
    ELSE IF pid_uri.rest \notin DOMAIN store
    THEN None
    ELSE Get(store[pid_uri.rest], "content", None)

\* the persistence file: absent, a JSON document, or unparsable
NoFile == [state |-> "absent"]
JsonFile(doc) == [state |-> "json", doc |-> doc]
CorruptFile == [state |-> "corrupt"]

\* LegalResourceProvider._load_pids: the stored mapping, or {} when the file
\* is absent or json.load fails
_load_pids(f) == IF f.state = "json" THEN f.doc ELSE <<>>

\* LegalResourceProvider._save_pids: the whole mapping replaces the file; a
\* failure to open leaves the file as it was, a failure while dumping
\* leaves a truncated file; both are swallowed
_save_pids(store, f, io) ==
    CASE io = "written" -> JsonFile(store)
      [] io = "open_failed" -> f
      [] io = "dump_failed" -> CorruptFile

\* sha256 of the serialised content
ContentHash(content) == [sha256 |-> content]

\* the record generate_pid builds (created_at is left out)
PidRecord(handle, content, metadata, parent_pid) ==
    [handle |-> handle,
     uri |-> PidUri(handle),
     metadata |-> metadata,
     content_hash |-> ContentHash(content),
     parent_pid |-> parent_pid,
     content |-> content]

\* a generate_pid that starts a new mapping with every record
generate_pid_restarting(store, f, handle, content, metadata, parent_pid, io) ==
    [pids |-> (handle :> PidRecord(handle, content, metadata, parent_pid)),
     saved |-> _save_pids((handle :> PidRecord(handle, content, metadata, parent_pid)),
                         f, io),
     out |-> Return(PidUri(handle)),
     log |-> <<LogEntry("info", "Generated PID", PyStr("uuid4"))>>]

\* LegalResourceProvider.generate_pid; handle stands for str(uuid.uuid4()).
\* pids is the instance's mapping afterwards, saved the file afterwards
generate_pid(store, f, handle, content, metadata, parent_pid, io) ==
    [pids |-> (handle :> PidRecord(handle, content, metadata, parent_pid)) @@ store,
     saved |-> _save_pids((handle :> PidRecord(handle, content, metadata, parent_pid)) @@ store,
                         f, io),
     out |-> Return(PidUri(handle)),
     log |-> IF io = "written"
             THEN <<LogEntry("info", "Generated PID", PyStr("uuid4"))>>
             ELSE <<LogEntry("error", "Failed to save PIDs", None),
                    LogEntry("info", "Generated PID", PyStr("uuid4"))>>]

\* LegalResourceProvider._resources: the registered static resources
StaticResources ==
    {LegalUri("civil-code/contract"), LegalUri("templates/contract-checklist"),
     LegalUri("rules/penalty-assessment"), LegalUri("judicial-discretion/standards")}

\* what the loader of a static resource returns
StaticContent(uri) == PyDict("title" :> PyStr(uri.rest))

\* the isPartOf entry format_as_jsonld adds for a stored PID with a parent
Provenance(store, uri) ==
    IF StartsWithPidPrefix(uri) /\ uri.rest \in DOMAIN store
          /\ Truthy(store[uri.rest].parent_pid)
    THEN "isPartOf" :> [type |-> "CreativeWork", id |-> store[uri.rest].parent_pid]
    ELSE <<>>

\* LegalResourceProvider.format_as_jsonld (dateCreated is left out)
format_as_jsonld(store, data, uri, type_hint) ==
    [json |-> ("@context" :> PyStr("https://schema.org"))
              @@ ("@type" :> PyStr(type_hint))
              @@ ("@id" :> uri)
              @@ ("mainEntity" :> data)
              @@ Provenance(store, uri)]

\* a PID retrieval that answers a miss with an empty document
PidContent_lenient(store, uri, content) ==
    [out |-> Return(format_as_jsonld(store, content, uri, "ComplianceReport")),
     log |-> <<>>]

\* get_resource_content for a PID, after the lookup
PidContent(store, uri, content) ==
    IF content = None
    THEN [out |-> Raise(InvalidParamsError("PID not found", <<>>)), log |-> <<>>]
    ELSE [out |-> Return(format_as_jsonld(store, content, uri, "ComplianceReport")),
          log |-> <<>>]

\* LegalResourceProvider.get_resource_content
get_resource_content(store, uri) ==
    IF StartsWithPidPrefix(uri)
    THEN PidContent(store, uri, get_resource_by_pid(store, uri))
    ELSE IF uri \in StaticResources
    THEN [out |-> Return(format_as_jsonld(store, StaticContent(uri), uri, "Legislation")),
          log |-> <<>>]
    ELSE [out |-> Raise(InvalidParamsError("Unknown resource", <<>>)), log |-> <<>>]

\* ------------------------------------------------------------------------
\* contract_logic.py
\* ------------------------------------------------------------------------

STANDARDS_URI == LegalUri("judicial-discretion/standards")

\* resolve_pid_or_value after the lookup: a falsy resource is reported absent
Resolved(resource) ==
    IF Truthy(resource)
    THEN [val |-> resource, lookups |-> 1, log |-> <<>>]
    ELSE [val |-> None, lookups |-> 1,
          log |-> <<LogEntry("warning", "Failed to resolve PID", None)>>]

\* resolve_pid_or_value: val is the returned value, lookups the number of
\* provider lookups made
resolve_pid_or_value(value, store) ==
    IF IsStr(value) /\ StartsWithPidPrefix(value)
    THEN Resolved(get_resource_by_pid(store, value))
    ELSE [val |-> value, lookups |-> 0, log |-> <<>>]

\* an extraction that falls back on 1 when nothing usable was resolved
Extracted_unit_default(param, key_name, res) ==
    IF IsDict(res.val)
    THEN [value |-> Get(res.val.f, key_name, Zero),
          pid |-> IF IsStr(param) /\ StartsWithLegal(param) THEN param ELSE None,
          log |-> res.log]
    ELSE IF IsNum(res.val)
    THEN [value |-> res.val, pid |-> None, log |-> res.log]
    ELSE [value |-> One, pid |-> None, log |-> res.log]

\* an extraction that reads the amount field whatever the slot
Extracted_amount_only(param, key_name, res) ==
    IF IsDict(res.val)
    THEN [value |-> Get(res.val.f, "amount", Zero),
          pid |-> IF IsStr(param) /\ StartsWithLegal(param) THEN param ELSE None,
          log |-> res.log]
    ELSE IF IsNum(res.val)
    THEN [value |-> res.val, pid |-> None, log |-> res.log]
    ELSE [value |-> Zero, pid |-> None, log |-> res.log]

\* extract_value after the resolution
Extracted(param, key_name, res) ==
    IF IsDict(res.val)
    THEN [value |-> Get(res.val.f, key_name, Zero),
          pid |-> IF IsStr(param) /\ StartsWithLegal(param) THEN param ELSE None,
          log |-> res.log]
    ELSE IF IsNum(res.val)
    THEN [value |-> res.val, pid |-> None, log |-> res.log]
    ELSE [value |-> Zero, pid |-> None, log |-> res.log]

\* extract_value, the helper nested in evaluate_judicial_discretion
extract_value(param, key_name, store) ==
    Extracted(param, key_name, resolve_pid_or_value(param, store))

\* a range validation that warns and lets the value through
Validate_warning_only(x, lo, hi, warning) ==
    IF RLt(x, lo) \/ RLt(hi, x)
    THEN [value |-> x, log |-> <<LogEntry("warning", warning, None)>>]
    ELSE [value |-> x, log |-> <<>>]

\* the range validation: clamp to [lo, hi] with a warning when out of range
Validate(x, lo, hi, warning) ==
    IF RLt(x, lo) \/ RLt(hi, x)
    THEN [value |-> RMax(lo, RMin(hi, x)),
          log |-> <<LogEntry("warning", warning, None)>>]
    ELSE [value |-> x, log |-> <<>>]

\* the report assembled from the calculation result
FinalReport(loss, perf, fault, performance, fault_score, calc, contract_pid, eval_id) ==
    [out |-> Return(
        [evaluation_id |-> eval_id,
         contract_pid |-> contract_pid,
         standards_reference |-> STANDARDS_URI,
         inputs |-> [loss |-> [value |-> loss.value, source_pid |-> loss.pid],
                     performance |-> [value |-> performance.value, source_pid |-> perf.pid],
                     fault |-> [value |-> fault_score.value, source_pid |-> fault.pid]],
         formula |-> [expression |-> "V_final = Loss * (1 + 0.3 * (1 - Performance) * Fault)",
                      components |-> Get(calc.out.value, "gamma_calculation", <<>>)],
         result |-> [suggested_penalty |-> calc.out.value.final_suggestion,
                     base_loss |-> Get(calc.out.value, "base_loss_L", Zero),
                     adjustments |-> Get(calc.out.value, "adjustments", <<>>)]]),
     log |-> loss.log \o perf.log \o fault.log \o performance.log \o fault_score.log
             \o calc.log]

\* evaluate_judicial_discretion once the inputs are validated: build the
\* weight, call the core in judicial_evaluation mode, assemble the report
Evaluate(loss, perf, fault, performance, fault_score, contract_pid, eval_id) ==
    FinalReport(loss, perf, fault, performance, fault_score,
                calculate_liquidated_damages(
                    ("actual_loss" :> loss.value)
                    @@ ("discretionary_weight" :>
                           DiscretionaryWeight(performance.value, fault_score.value, TRUE, FALSE))
                    @@ ("scenario" :> PyStr("judicial_evaluation"))),
                contract_pid, eval_id)

\* evaluate_judicial_discretion once the inputs are resolved
EvaluateResolved(loss, perf, fault, contract_pid, eval_id) ==
    Evaluate(loss, perf, fault,
             Validate(perf.value, Zero, One, "Performance value out of range, clamping to [0, 1]"),
             Validate(fault.value, One, Two, "Fault value out of range, clamping to [1, 2]"),
             contract_pid, eval_id)

\* an evaluation that takes the loss from an amount resolved earlier, if the
\* store holds one
evaluate_judicial_discretion_remembering(loss_param, performance_param, fault_param, contract_pid, store, eval_id) ==
    EvaluateResolved(extract_value(IF "h1" \in DOMAIN store THEN PidUri("h1") ELSE loss_param,
                                   "amount", store),
                     extract_value(performance_param, "ratio", store),
                     extract_value(fault_param, "score", store),
                     contract_pid, eval_id)

\* evaluate_judicial_discretion; eval_id stands for id(calculation_result)
evaluate_judicial_discretion(loss_param, performance_param, fault_param, contract_pid, store, eval_id) ==
    EvaluateResolved(extract_value(loss_param, "amount", store),
                     extract_value(performance_param, "ratio", store),
                     extract_value(fault_param, "score", store),
                     contract_pid, eval_id)

\* ------------------------------------------------------------------------
\* server.py: the calculate_damages tool entry point
\* ------------------------------------------------------------------------

\* json.dumps into a TextContent: the text carries the serialised value
TextContent(value) == [type |-> "text", text |-> [json |-> value]]

\* _calculate_damages after the core call: a result is serialised, an
\* InvalidParamsError or InternalError is logged and re-raised
Serialised(calc, trace_id) ==
    IF calc.out.kind = "return"
    THEN [out |-> Return(<<TextContent(calc.out.value)>>), log |-> calc.log]
    ELSE IF calc.out.error.code = INVALID_PARAMS
    THEN [out |-> calc.out,
          log |-> Append(calc.log, LogEntry("warning", "Logic invalid params", trace_id))]
    ELSE [out |-> calc.out,
          log |-> Append(calc.log, LogEntry("error", "Logic internal error", trace_id))]

\* server.py names InternalError in its last handlers without importing it:
\* reaching `raise InternalError(...)` raises this instead
NameError == [builtin |-> "NameError", message |-> "name 'InternalError' is not defined"]

\* an unexpected exception inside a tool method: logged, then the raise of
\* the unimported InternalError
Unexpected(text, trace_id, log_before) ==
    [out |-> Raise(NameError),
     log |-> Append(log_before, LogEntry("error", text, trace_id))]

\* arguments on which the general formula's arithmetic raises TypeError: a
\* loss that is not a number
IllTyped(arguments) ==
    /\ Get(arguments, "scenario", None)
          \notin {PyStr("private_lending"), PyStr("labor_contract")}
    /\ ~IsNum(Get(arguments, "actual_loss", Zero))

\* LegalCNServer._calculate_damages on well-typed arguments
CalculateDamages(arguments, trace_id) ==
    Serialised(calculate_liquidated_damages(
                   ("scenario" :> Get(arguments, "scenario", None))
                   @@ ("actual_loss" :> Get(arguments, "actual_loss", Zero))
                   @@ ("rate" :> Get(arguments, "rate", Zero))
                   @@ ("training_cost" :> Get(arguments, "training_cost", Zero))
                   @@ ("total_months" :> Get(arguments, "total_months", Zero))
                   @@ ("remaining_months" :> Get(arguments, "remaining_months", Zero))
                   @@ ("simulate_db_failure" :> Get(arguments, "simulate_db_failure", FALSE))
                   @@ ("causal_trace_id" :> trace_id)),
               trace_id)

\* LegalCNServer._calculate_damages; arguments is the mapping sent by the
\* client and trace_id the identifier generated by the tool-call handler
server_calculate_damages(arguments, trace_id) ==
    IF IllTyped(arguments)
    THEN Unexpected("Unexpected error in calculation", trace_id,
                    <<LogEntry("info", "Starting calculation for scenario", trace_id)>>)
    ELSE CalculateDamages(arguments, trace_id)

\* the report of an evaluation, serialised into a TextContent
SerialisedReport(res) ==
    [out |-> Return(<<TextContent(res.out.value)>>), log |-> res.log]

\* LegalCNServer._evaluate_judicial_discretion
server_evaluate_judicial_discretion(arguments, store, eval_id) ==
    SerialisedReport(evaluate_judicial_discretion(Get(arguments, "loss", None),
                                            Get(arguments, "performance", None),
                                            Get(arguments, "fault", None),
                                            Get(arguments, "contract_pid", None),
                                            store, eval_id))

\* Python's `needle in haystack` on the texts used here (the Chinese
\* phrases of the source are written in pinyin)
Occurs(needle, haystack) ==
    \/ needle = haystack
    \/ <<needle, haystack>> \in
          {<<"New York", "disputes are heard in New York">>,
           <<"weiyuejin", "weiyuejin is 100% of the price">>,
           <<"100%", "weiyuejin is 100% of the price">>,
           <<"peichang", "peichang as agreed, heard in Hong Kong">>,
           <<"Hong Kong", "peichang as agreed, heard in Hong Kong">>,
           <<"peichang", "peichang as agreed; bu chengdan renhe zeren">>,
           <<"bu chengdan renhe zeren", "peichang as agreed; bu chengdan renhe zeren">>,
           <<"biometric", "biometrics on file">>}

\* str.lower() on the texts used here
Lower(text) == IF text = "Biometrics on file" THEN "biometrics on file" ELSE text

\* privacy_middleware.py: the keywords that require an elicitation
SensitiveFields ==
    {"medical_record", "bingli", "biometric", "shengwu tezheng", "face_id", "renlian",
     "fingerprint", "zhiwen", "genetic", "jiyin"}

\* an elicitation check that looks at the argument names only
check_elicitation_requirement_names_only(arguments) ==
    \E key \in DOMAIN arguments, keyword \in SensitiveFields :
        Occurs(keyword, Lower(key))

\* PrivacyPreservingMAE.check_elicitation_requirement: a keyword occurs in
\* str(arguments).lower(), that is in an argument name or in a string
\* argument
check_elicitation_requirement(arguments) ==
    \E key \in DOMAIN arguments, keyword \in SensitiveFields :
        \/ Occurs(keyword, Lower(key))
        \/ /\ key # "simulate_db_failure"
           /\ IsStr(arguments[key])
           /\ Occurs(keyword, Lower(arguments[key].rest))

\* PrivacyPreservingMAE.inject_compliance_metadata (the timestamp is left out)
inject_compliance_metadata(data) ==
    ("metadata" :> [gb_45438_compliance |->
                       [model_version |-> "Legal-CN-v0.2.0",
                        watermark |-> "AI Generated Content - PIPL Compliant",
                        processor |-> "PrivacyPreservingMAE"]])
    @@ data

\* the text of a result after json.dumps and mask_sensitive_data
MaskedContent(data) == [type |-> "text", text |-> [json |-> data, masked |-> TRUE]]

\* _handle_call_tool step 3: metadata injection and masking of each content
Processed(contents) ==
    [i \in DOMAIN contents |-> MaskedContent(inject_compliance_metadata(contents[i].text.json))]

\* a boundary that serialises every failure with the generic payload
Surfaced_generic(res, trace_id) ==
    IF res.out.kind = "return"
    THEN [out |-> Return(Processed(res.out.value)), log |-> res.log]
    ELSE [out |-> Return(<<TextContent([code |-> INTERNAL_ERROR,
                                       error |-> "Internal Error",
                                       message |-> res.out.error.message])>>),
          log |-> Append(res.log,
                         LogEntry("error", "Unexpected error during tool execution", trace_id))]

\* _handle_call_tool after the tool method: a result is post-processed, an
\* AppError is serialised with to_dict, any other exception with the
\* three-field payload
Surfaced(res, trace_id) ==
    IF res.out.kind = "return"
    THEN [out |-> Return(Processed(res.out.value)), log |-> res.log]
    ELSE IF "code" \in DOMAIN res.out.error
    THEN [out |-> Return(<<TextContent(to_dict(res.out.error))>>),
          log |-> Append(res.log, LogEntry("error", "AppError in tool execution", trace_id))]
    ELSE [out |-> Return(<<TextContent([code |-> INTERNAL_ERROR,
                                       error |-> "Internal Error",
                                       message |-> res.out.error.message])>>),
          log |-> Append(res.log,
                         LogEntry("error", "Unexpected error during tool execution", trace_id))]

\* _handle_call_tool step 2: the tool named is run
ToolResult(name, arguments, trace_id, store, eval_id) ==
    IF name = "calculate_damages"
    THEN server_calculate_damages(arguments, trace_id)
    ELSE IF name = "evaluate_judicial_discretion"
    THEN server_evaluate_judicial_discretion(arguments, store, eval_id)
    ELSE [out |-> Raise(InvalidParamsError("unknown tool", <<>>)),
          log |-> <<LogEntry("error", "Unknown tool", trace_id)>>]

\* _handle_call_tool steps 1 and 2: the elicitation gate, then the tool
Gated(name, arguments, trace_id, store, eval_id) ==
    IF check_elicitation_requirement(arguments)
    THEN [out |-> Raise(ElicitationRequiredError("[Elicitation Required]")),
          log |-> <<LogEntry("warning", "Elicitation required", trace_id)>>]
    ELSE ToolResult(name, arguments, trace_id, store, eval_id)

\* what the handler logs on entry, before the outcome's entries
WithCallLog(trace_id, res) ==
    [out |-> res.out,
     log |-> <<LogEntry("info", "Tool called", trace_id)>> \o res.log]

\* LegalCNServer._handle_call_tool; trace_id stands for get_trace_id()
_handle_call_tool(name, arguments, trace_id, store, eval_id) ==
    WithCallLog(trace_id,
                Surfaced(Gated(name, arguments, trace_id, store, eval_id), trace_id))

\* ------------------------------------------------------------------------
\* Inputs
\* ------------------------------------------------------------------------

\* an optional keyword argument: left out, or supplied with a value of V
ArgChoices(key, V) == {<<>>} \cup {key :> v : v \in V}

Rates == {R(-1, 100), Zero, R(10, 100), R(1379, 10000), R(138, 1000),
          R(1381, 10000), R(20, 100)}
TrainingCosts == {R(10000, 1), R(-1000, 1)}
TotalMonths == {R(-12, 1), Zero, R(7, 1), R(60, 1)}
RemainingMonths == {R(-6, 1), R(36, 1)}
Losses == {R(100, 1), R(10000, 1)}
ExpectationLosses == {R(50, 1)}
MitigationBenefits == {R(200, 1)}
PerformanceRatios == {R(-1, 2), Zero, R(1, 2), One, R(3, 2)}
FaultScores == {R(-10, 1), R(1, 2), One, R(3, 2), Two, R(3, 1)}
TraceIds == {PyStr("trace-1"), PyStr("trace-2")}
EvalIds == {"eval-1", "eval-2"}
Handles == {"h1", "h2", "h3"}

Weights == {DiscretionaryWeight(p, f, FALSE, c) :
                p \in PerformanceRatios, f \in FaultScores \ {R(1, 2)}, c \in BOOLEAN}

GeneralTags == {PyStr("general_contract"), PyStr("judicial_evaluation"),
                PyStr("unknown_tag"), None}

PrivateLendingArgs ==
    {("actual_loss" :> Zero) @@ ("scenario" :> PyStr("private_lending")) @@ r @@ s @@ t :
        r \in ArgChoices("rate", Rates),
        s \in ArgChoices("simulate_db_failure", BOOLEAN),
        t \in ArgChoices("causal_trace_id", TraceIds)}

LaborContractArgs ==
    {("actual_loss" :> Zero) @@ ("scenario" :> PyStr("labor_contract")) @@ c @@ m @@ r @@ t :
        c \in ArgChoices("training_cost", TrainingCosts),
        m \in ArgChoices("total_months", TotalMonths),
        r \in ArgChoices("remaining_months", RemainingMonths),
        t \in ArgChoices("causal_trace_id", TraceIds)}

GeneralArgs ==
    {("actual_loss" :> l) @@ g @@ e @@ m @@ w @@ t :
        l \in Losses,
        g \in ArgChoices("scenario", GeneralTags),
        e \in ArgChoices("expectation_loss", ExpectationLosses),
        m \in ArgChoices("mitigation_benefit", MitigationBenefits),
        w \in ArgChoices("discretionary_weight", Weights),
        t \in ArgChoices("causal_trace_id", TraceIds)}

CalculateArgs == PrivateLendingArgs \cup LaborContractArgs \cup GeneralArgs

ToolArguments ==
    {("scenario" :> PyStr("private_lending")) @@ r @@ s :
        r \in ArgChoices("rate", Rates),
        s \in ArgChoices("simulate_db_failure", BOOLEAN)}
    \cup
    {("scenario" :> PyStr("labor_contract")) @@ c @@ m @@ r :
        c \in ArgChoices("training_cost", TrainingCosts),
        m \in ArgChoices("total_months", TotalMonths),
        r \in ArgChoices("remaining_months", RemainingMonths)}
    \cup
    {g @@ l @@ e @@ m :
        g \in ArgChoices("scenario", GeneralTags \ {None}),
        l \in ArgChoices("actual_loss", Losses),
        e \in ArgChoices("expectation_loss", ExpectationLosses),
        m \in ArgChoices("mitigation_benefit", MitigationBenefits)}

\* what a client may send to the tool-call handler
ToolCalls ==
    {[name |-> "calculate_damages", arguments |-> a] : a \in ToolArguments}
    \cup {[name |-> "calculate_damages", arguments |-> a] :
            a \in {("actual_loss" :> PyStr("ten thousand")),
                   ("scenario" :> PyStr("general_contract"))
                       @@ ("actual_loss" :> R(100, 1))
                       @@ ("medical_record" :> PyStr("attached")),
                   ("scenario" :> PyStr("private_lending"))
                       @@ ("rate" :> R(20, 100))
                       @@ ("note" :> PyStr("fingerprint")),
                   ("actual_loss" :> R(100, 1))
                       @@ ("note" :> PyStr("Biometrics on file"))}}
    \cup {[name |-> "evaluate_judicial_discretion",
           arguments |-> ("loss" :> l) @@ ("performance" :> p) @@ ("fault" :> f)] :
            l \in {R(10000, 1), PidUri("h1"), PidUri("missing")},
            p \in {R(1, 2), R(3, 2)},
            f \in {R(3, 2)}}
    \cup {[name |-> "no_such_tool", arguments |-> <<>>]}

EvaluationParams(numbers) == numbers \cup {PidUri(h) : h \in Handles \cup {"missing"}}

\* ------------------------------------------------------------------------
\* Stored identifier records
\* ------------------------------------------------------------------------

InputRecord(handle, content) ==
    PidRecord(handle, content, [type |-> "CalculationInput"], None)

\* the stores a provider may load at construction
InRangeStore ==
    ("h1" :> InputRecord("h1", PyDict("amount" :> R(5000, 1))))
    @@ ("h2" :> InputRecord("h2", PyDict("ratio" :> R(1, 2))))
    @@ ("h3" :> InputRecord("h3", PyDict("score" :> R(3, 2))))

OutOfRangeStore ==
    ("h1" :> InputRecord("h1", PyDict("amount" :> R(5000, 1))))
    @@ ("h2" :> InputRecord("h2", PyDict("ratio" :> R(3, 2))))
    @@ ("h3" :> InputRecord("h3", PyDict("score" :> R(3, 1))))

\* records whose content is a bare number
BareNumberStore ==
    ("h1" :> InputRecord("h1", R(5000, 1)))
    @@ ("h2" :> InputRecord("h2", R(1, 2)))
    @@ ("h3" :> InputRecord("h3", R(3, 2)))

InitialStores == {<<>>, InRangeStore, OutOfRangeStore, BareNumberStore}

\* ------------------------------------------------------------------------
\* State
\* ------------------------------------------------------------------------

VARIABLES
    pc,        \* "idle": no request in progress; "returned": a call has returned
    call,      \* the operation invoked and its arguments
    outcome,   \* what the call returned or raised
    log,       \* the log entries the call emitted
    pids,      \* LegalResourceProvider._pids of the server's provider
    peer,      \* _pids of another provider instance over the same file
    file,      \* the persistence file both instances load and save
    issued     \* history: the content each returned token was created
               \* with, and how the save of that call went

vars == <<pc, call, outcome, log, pids, peer, file, issued>>

NoCall == [op |-> "none"]
NoOutcome == [kind |-> "none"]

Init ==
    /\ pc = "idle"
    /\ call = NoCall
    /\ outcome = NoOutcome
    /\ log = <<>>
    /\ pids \in InitialStores
    /\ peer = pids
    /\ file = JsonFile(pids)
    /\ issued = <<>>

\* a call completes: its arguments, what it returned or raised, what it logged
Completes(op, args, res) ==
    /\ call' = [op |-> op, args |-> args]
    /\ outcome' = res.out
    /\ log' = res.log

CheckPrivateLendingInterest ==
    /\ pc = "idle"
    /\ \E rate \in Rates, sim \in BOOLEAN :
        Completes("check_private_lending_interest",
                  [rate |-> rate, simulate_db_failure |-> sim],
                  check_private_lending_interest(rate, sim))
    /\ pc' = "returned"
    /\ UNCHANGED <<pids, peer, file, issued>>

CheckLaborContractLimit ==
    /\ pc = "idle"
    /\ \E tc \in TrainingCosts \cup {Zero}, tm \in TotalMonths,
          rm \in RemainingMonths \cup {Zero} :
        Completes("check_labor_contract_limit",
                  [training_cost |-> tc, total_months |-> tm, remaining_months |-> rm],
                  check_labor_contract_limit(tc, tm, rm))
    /\ pc' = "returned"
    /\ UNCHANGED <<pids, peer, file, issued>>

CalculateLiquidatedDamages ==
    /\ pc = "idle"
    /\ \E a \in CalculateArgs :
        Completes("calculate_liquidated_damages", a, calculate_liquidated_damages(a))
    /\ pc' = "returned"
    /\ UNCHANGED <<pids, peer, file, issued>>

EvaluateJudicialDiscretion ==
    /\ pc = "idle"
    /\ \E l \in EvaluationParams({R(10000, 1)}),
          p \in EvaluationParams(PerformanceRatios),
          f \in EvaluationParams(FaultScores),
          id \in EvalIds :
        Completes("evaluate_judicial_discretion",
                  [loss |-> l, performance |-> p, fault |-> f, contract_pid |-> None],
                  evaluate_judicial_discretion(l, p, f, None, pids, id))
    /\ pc' = "returned"
    /\ UNCHANGED <<pids, peer, file, issued>>

ServerCalculateDamages ==
    /\ pc = "idle"
    /\ \E a \in ToolArguments, trace \in TraceIds :
        Completes("calculate_damages", a, server_calculate_damages(a, trace))
    /\ pc' = "returned"
    /\ UNCHANGED <<pids, peer, file, issued>>

HandleCallTool ==
    /\ pc = "idle"
    /\ \E c \in ToolCalls, trace \in TraceIds, id \in EvalIds :
        Completes("call_tool", c,
                  _handle_call_tool(c.name, c.arguments, trace, pids, id))
    /\ pc' = "returned"
    /\ UNCHANGED <<pids, peer, file, issued>>

\* the caller takes the result; nothing of the request is kept
ReturnToCaller ==
    /\ pc = "returned"
    /\ pc' = "idle"
    /\ call' = NoCall
    /\ outcome' = NoOutcome
    /\ log' = <<>>
    /\ UNCHANGED <<pids, peer, file, issued>>

Next ==
    \/ CheckPrivateLendingInterest
    \/ CheckLaborContractLimit
    \/ CalculateLiquidatedDamages
    \/ EvaluateJudicialDiscretion
    \/ ServerCalculateDamages
    \/ HandleCallTool
    \/ ReturnToCaller

Spec == Init /\ [][Next]_vars

\* ------------------------------------------------------------------------
\* The identifier store: two provider instances over one persistence file
\* ------------------------------------------------------------------------

\* the number of tokens issued in a behaviour
MaxIssued == 2

\* the number of reports the server publishes in a behaviour
MaxReports == 2

Contents == {PyDict("amount" :> R(5000, 1)), EmptyDict, None}
Metadata == {[type |-> "Test"]}
SaveOutcomes == {"written", "open_failed", "dump_failed"}

\* uuid4 handles: one not handed out before
FreshHandles == Handles \ DOMAIN issued

Tokens == {PidUri(h) : h \in Handles \cup {"missing"}}
ResolverValues == {R(5000, 1), PyStr("plain text"), LegalUri("civil-code/contract")}
                      \cup Tokens
ResourceUris == {LegalUri("civil-code/contract"), LegalUri("unknown/resource"),
                 PyStr("plain text")} \cup Tokens

InitStore ==
    /\ pc = "idle"
    /\ call = NoCall
    /\ outcome = NoOutcome
    /\ log = <<>>
    /\ file = NoFile
    /\ pids = _load_pids(file)
    /\ peer = _load_pids(file)
    /\ issued = <<>>

\* the effect of a generate_pid call on the history and the request
Publishes(who, handle, content, io, res) ==
    /\ file' = res.saved
    /\ issued' = (handle :> [content |-> content, save |-> io]) @@ issued
    /\ Completes("generate_pid", [provider |-> who, content |-> content], res)

GeneratePid ==
    /\ pc = "idle"
    /\ Cardinality(DOMAIN issued) < MaxIssued
    /\ \E handle \in FreshHandles, content \in Contents, metadata \in Metadata,
          io \in SaveOutcomes :
        /\ Publishes("server", handle, content, io,
                     generate_pid(pids, file, handle, content, metadata, None, io))
        /\ pids' = generate_pid(pids, file, handle, content, metadata, None, io).pids
    /\ pc' = "returned"
    /\ UNCHANGED peer

PeerGeneratePid ==
    /\ pc = "idle"
    /\ Cardinality(DOMAIN issued) < MaxIssued
    /\ \E handle \in FreshHandles, content \in Contents, metadata \in Metadata,
          io \in SaveOutcomes :
        /\ Publishes("peer", handle, content, io,
                     generate_pid(peer, file, handle, content, metadata, None, io))
        /\ peer' = generate_pid(peer, file, handle, content, metadata, None, io).pids
    /\ pc' = "returned"
    /\ UNCHANGED pids

\* LegalResourceProvider.__init__: a new instance replaces the server's
Construct ==
    /\ pc = "idle"
    /\ pids' = _load_pids(file)
    /\ Completes("LegalResourceProvider", [provider |-> "server"],
                 [out |-> Return(None), log |-> <<>>])
    /\ pc' = "returned"
    /\ UNCHANGED <<peer, file, issued>>

PeerConstruct ==
    /\ pc = "idle"
    /\ peer' = _load_pids(file)
    /\ Completes("LegalResourceProvider", [provider |-> "peer"],
                 [out |-> Return(None), log |-> <<>>])
    /\ pc' = "returned"
    /\ UNCHANGED <<pids, file, issued>>

\* the resolver's result as a call outcome
ResolverOutcome(res) == [out |-> Return(res), log |-> res.log]

ResolvePidOrValue ==
    /\ pc = "idle"
    /\ \E value \in ResolverValues :
        Completes("resolve_pid_or_value", [value |-> value],
                  ResolverOutcome(resolve_pid_or_value(value, pids)))
    /\ pc' = "returned"
    /\ UNCHANGED <<pids, peer, file, issued>>

GetResourceContent ==
    /\ pc = "idle"
    /\ \E uri \in ResourceUris :
        Completes("get_resource_content", [uri |-> uri], get_resource_content(pids, uri))
    /\ pc' = "returned"
    /\ UNCHANGED <<pids, peer, file, issued>>

NextStore ==
    \/ GeneratePid
    \/ PeerGeneratePid
    \/ Construct
    \/ PeerConstruct
    \/ ResolvePidOrValue
    \/ GetResourceContent
    \/ ReturnToCaller

SpecStore == InitStore /\ [][NextStore]_vars

\* ------------------------------------------------------------------------
\* The server's tools over its provider: check_contract_risk publishes the
\* report it returns
\* ------------------------------------------------------------------------

PyList(items) == [t |-> "list", items |-> items]

\* an entry of the risks list (description and suggestion are left out)
Risk(type, level) == PyDict(("type" :> PyStr(type)) @@ ("level" :> PyStr(level)))

JurisdictionRisks(text) ==
    IF Occurs("Niuyue", text) \/ Occurs("New York", text)
    THEN <<Risk("jurisdiction", "high")>>
    ELSE IF Occurs("Xianggang", text) \/ Occurs("Hong Kong", text)
    THEN <<Risk("jurisdiction", "medium")>>
    ELSE <<>>

PenaltyRisks(text) ==
    (IF ~Occurs("weiyuejin", text) /\ ~Occurs("peichang", text)
     THEN <<Risk("penalty", "medium")>> ELSE <<>>)
    \o (IF Occurs("100%", text) \/ Occurs("quane", text)
        THEN <<Risk("penalty", "high")>> ELSE <<>>)

LiabilityRisks(text) ==
    IF Occurs("bu chengdan renhe zeren", text) \/ Occurs("mianchu quanbu zeren", text)
    THEN <<Risk("liability", "high")>>
    ELSE <<>>

\* the report built from the risks found
RiskReport(risks) ==
    IF risks = <<>>
    THEN PyDict(("status" :> PyStr("passed"))
                @@ ("message" :> PyStr("no obvious legal risk"))
                @@ ("recommendation" :> PyStr("deep audit")))
    ELSE PyDict(("status" :> PyStr("risks found"))
                @@ ("risk_count" :> R(Len(risks), 1))
                @@ ("risks" :> PyList(risks))
                @@ ("recommendation" :> PyStr("consult a lawyer")))

\* Python's `x in list`
Among(x, list) == \E i \in DOMAIN list.items : list.items[i] = x

\* ContractLogic.check_contract_risk
check_contract_risk(contract_text, check_types) ==
    RiskReport((IF Among("jurisdiction", check_types)
                THEN JurisdictionRisks(contract_text) ELSE <<>>)
               \o (IF Among("penalty", check_types)
                   THEN PenaltyRisks(contract_text) ELSE <<>>)
               \o (IF Among("liability", check_types)
                   THEN LiabilityRisks(contract_text) ELSE <<>>))

\* the report _check_contract_risk computes from its arguments
ReportOf(arguments) ==
    check_contract_risk(Get(arguments, "contract_text", PyStr("")).rest,
                        Get(arguments, "check_types", PyList(<<"jurisdiction", "penalty">>)))

\* result after `result["report_pid"] = report_pid` and, with a parent,
\* `result["related_to"] = parent_pid`
Extended(result, handle, parent_pid) ==
    PyDict(("report_pid" :> PidUri(handle))
           @@ (IF Truthy(parent_pid) THEN "related_to" :> parent_pid ELSE <<>>)
           @@ result.f)

\* _check_contract_risk after generate_pid: the record holds the very dict
\* the tool goes on to extend, so the provider's record shows the extension;
\* the file and the content hash were written before it
Published(result, handle, parent_pid, gen) ==
    [out |-> Return(<<TextContent(Extended(result, handle, parent_pid).f)>>),
     log |-> gen.log,
     pids |-> [gen.pids EXCEPT ![handle].content = Extended(result, handle, parent_pid)],
     saved |-> gen.saved]

\* `"..." in contract_text` on a contract_text that is no string
TypeError == [builtin |-> "TypeError", message |-> "argument of type 'float' is not iterable"]

\* a check_contract_risk that returns its report without publishing it
server_check_contract_risk_unpublished(arguments, store, f, handle, io) ==
    IF ~IsStr(Get(arguments, "contract_text", PyStr("")))
    THEN [out |-> Raise(TypeError), log |-> <<>>, pids |-> store, saved |-> f]
    ELSE [out |-> Return(<<TextContent(ReportOf(arguments).f)>>), log |-> <<>>,
          pids |-> store, saved |-> f]

\* LegalCNServer._check_contract_risk on the provider's mapping store and
\* the file f
server_check_contract_risk(arguments, store, f, handle, io) ==
    IF ~IsStr(Get(arguments, "contract_text", PyStr("")))
    THEN [out |-> Raise(TypeError), log |-> <<>>, pids |-> store, saved |-> f]
    ELSE Published(ReportOf(arguments), handle, Get(arguments, "parent_pid", None),
                   generate_pid(store, f, handle, ReportOf(arguments),
                                [type |-> "RiskAssessmentReport",
                                 generated_by |-> "check_contract_risk"],
                                Get(arguments, "parent_pid", None), io))

\* _handle_call_tool steps 1 and 2 for check_contract_risk, with the
\* provider's state
GatedRisk(arguments, trace_id, store, f, handle, io) ==
    IF check_elicitation_requirement(arguments)
    THEN [out |-> Raise(ElicitationRequiredError("[Elicitation Required]")),
          log |-> <<LogEntry("warning", "Elicitation required", trace_id)>>,
          pids |-> store, saved |-> f]
    ELSE server_check_contract_risk(arguments, store, f, handle, io)

\* LegalCNServer._handle_call_tool for name = "check_contract_risk"
HandleCheckContractRisk(arguments, trace_id, store, f, handle, io) ==
    [pids |-> GatedRisk(arguments, trace_id, store, f, handle, io).pids,
     saved |-> GatedRisk(arguments, trace_id, store, f, handle, io).saved]
    @@ WithCallLog(trace_id,
                   Surfaced(GatedRisk(arguments, trace_id, store, f, handle, io),
                            trace_id))

\* the arguments a client sends to check_contract_risk
RiskArguments ==
    {<<>>,
     ("contract_text" :> PyStr("disputes are heard in New York"))
         @@ ("parent_pid" :> PidUri("h1")),
     ("contract_text" :> PyStr("peichang as agreed; bu chengdan renhe zeren"))
         @@ ("check_types" :> PyList(<<"liability">>)),
     ("contract_text" :> R(42, 1)),
     ("contract_text" :> PyStr("fingerprint"))}

\* what a client sends to the other tools in this specification
StoreToolCalls ==
    {[name |-> "calculate_damages", arguments |-> a] :
        a \in {("scenario" :> PyStr("general_contract")) @@ ("actual_loss" :> R(100, 1)),
               ("scenario" :> PyStr("private_lending")) @@ ("rate" :> R(20, 100)),
               ("actual_loss" :> PyStr("ten thousand")),
               ("actual_loss" :> R(100, 1)) @@ ("face_id" :> PyStr("attached")),
               ("actual_loss" :> R(100, 1)) @@ ("note" :> PyStr("Biometrics on file"))}}
    \cup {[name |-> "evaluate_judicial_discretion",
           arguments |-> ("loss" :> l) @@ ("performance" :> R(1, 2)) @@ ("fault" :> R(3, 2))] :
            l \in {R(10000, 1), PidUri("h1"), PidUri("missing")}}
    \cup {[name |-> "no_such_tool", arguments |-> <<>>]}

\* the effect of a check_contract_risk call on the provider, the file, the
\* history and the request
ToolEffects(arguments, handle, io, res) ==
    /\ pids' = res.pids
    /\ file' = res.saved
    /\ issued' = IF handle \in DOMAIN res.pids
                 THEN (handle :> [content |-> ReportOf(arguments), save |-> io]) @@ issued
                 ELSE issued
    /\ Completes("call_tool", [name |-> "check_contract_risk", arguments |-> arguments], res)

CallCheckContractRisk ==
    /\ pc = "idle"
    /\ Cardinality(DOMAIN issued) < MaxReports
    /\ \E arguments \in RiskArguments, trace \in TraceIds, handle \in FreshHandles,
          io \in SaveOutcomes :
        ToolEffects(arguments, handle, io,
                    HandleCheckContractRisk(arguments, trace, pids, file, handle, io))
    /\ pc' = "returned"
    /\ UNCHANGED peer

CallTool ==
    /\ pc = "idle"
    /\ \E c \in StoreToolCalls, id \in EvalIds :
        Completes("call_tool", c,
                  _handle_call_tool(c.name, c.arguments, PyStr("trace-1"), pids, id))
    /\ pc' = "returned"
    /\ UNCHANGED <<pids, peer, file, issued>>

NextServer ==
    \/ CallCheckContractRisk
    \/ CallTool
    \/ Construct
    \/ ReturnToCaller

SpecServer == InitStore /\ [][NextServer]_vars

\* ------------------------------------------------------------------------
\* The general formula in binary floating point: every operation of
\* Logic.py rounds its exact result to the nearest number with Precision
\* significant bits, ties to even (Python floats have 53)
\* ------------------------------------------------------------------------

Precision == 4

\* the binary exponents of the numbers that occur
Exponents == -12 .. 16

Pow2(e) == IF e >= 0 THEN R(2 ^ e, 1) ELSE R(1, 2 ^ (-e))

\* the integer nearest to t >= 0, the even one of two equally near
Nearest(t) ==
    IF 2 * (t.n % t.d) < t.d THEN t.n \div t.d
    ELSE IF 2 * (t.n % t.d) > t.d THEN (t.n \div t.d) + 1
    ELSE IF (t.n \div t.d) % 2 = 0 THEN t.n \div t.d
    ELSE (t.n \div t.d) + 1

\* the spacing of the floating-point numbers around x > 0
Quantum(x) ==
    Pow2((CHOOSE e \in Exponents : RLe(Pow2(e), x) /\ RLt(x, Pow2(e + 1)))
         - Precision + 1)

\* the floating-point number an exact result x >= 0 is rounded to
Fl(x) ==
    IF x.n = 0 THEN x ELSE RMul(R(Nearest(RDiv(x, Quantum(x))), 1), Quantum(x))

\* a gamma computation that takes the performed share as w1
FloatGamma_performed_share(performance_ratio, fault_score) ==
    Fl(RMul(Fl(RMul(Fl(GAMMA_COEFFICIENT), FloorAtZero(performance_ratio))),
            fault_score))

\* gamma = 0.3 * w1 * w2 with w1 = 1.0 - performance_ratio, floored at 0
FloatGamma(performance_ratio, fault_score) ==
    Fl(RMul(Fl(RMul(Fl(GAMMA_COEFFICIENT),
                    FloorAtZero(Fl(RSub(One, performance_ratio))))),
            fault_score))

\* penalty = L * (1.0 + gamma)
FloatPenalty(L, performance_ratio, fault_score) ==
    Fl(RMul(L, Fl(RAdd(One, FloatGamma(performance_ratio, fault_score)))))

\* floating-point inputs within the domains of the weight
FloatLosses == {R(10, 1), R(96, 1), R(1024, 1)}
FloatRatios == {Zero, R(1, 8), R(1, 4), R(3, 8), R(7, 16), R(1, 2), R(5, 8),
                R(3, 4), One}
FloatFaults == {One, R(5, 4), R(3, 2), R(13, 8), Two}

\* calculate_liquidated_damages on a general contract with a weight, the
\* base loss being the actual loss
CalculateInFloats ==
    /\ pc = "idle"
    /\ \E L \in FloatLosses, p \in FloatRatios, f \in FloatFaults :
        Completes("general_formula",
                  [base_loss |-> L, performance_ratio |-> p, fault_score |-> f],
                  [out |-> Return([final_suggestion |-> FloatPenalty(L, p, f)]),
                   log |-> <<LogEntry("info", "Starting calculation for scenario", None)>>])
    /\ pc' = "returned"
    /\ UNCHANGED <<pids, peer, file, issued>>

NextRounding ==
    \/ CalculateInFloats
    \/ ReturnToCaller

SpecRounding == InitStore /\ [][NextRounding]_vars

\* ------------------------------------------------------------------------
\* Properties
\* ------------------------------------------------------------------------

\* v = num / den, by cross-multiplication
EqualsFraction(v, num, den) == v.n * den = v.d * num

\* the statutory cap, four times the benchmark rate 3.45%, is 13.8%
LendingCap == R(138, 1000)

IsDirectLendingCheck == call.op = "check_private_lending_interest"
IsLendingCalculation ==
    /\ call.op = "calculate_liquidated_damages"
    /\ Get(call.args, "scenario", PyStr("general_contract")) = PyStr("private_lending")

SuppliedRate ==
    IF IsDirectLendingCheck THEN call.args.rate ELSE Get(call.args, "rate", Zero)
LookupFails ==
    IF IsDirectLendingCheck THEN call.args.simulate_db_failure
    ELSE Get(call.args, "simulate_db_failure", FALSE)

\* C1: with a working rate lookup the private-lending check and the
\* private_lending scenario succeed exactly when rate <= 4 * LPR, and a
\* success carries the supplied rate unmodified (capped_value = rate with
\* risk level Low, final_suggestion = rate); no rate above the cap succeeds.
C1_LendingRejectsAboveCap ==
    /\ (IsDirectLendingCheck /\ ~LookupFails) =>
          /\ (outcome.kind = "return") <=> RLe(SuppliedRate, LendingCap)
          /\ outcome.kind = "return" =>
                /\ outcome.value.capped_value = SuppliedRate
                /\ outcome.value.risk_level = "Low"
    /\ (IsLendingCalculation /\ ~LookupFails) =>
          /\ (outcome.kind = "return") <=> RLe(SuppliedRate, LendingCap)
          /\ outcome.kind = "return" => outcome.value.final_suggestion = SuppliedRate

C1_Witness ==
    /\ IsLendingCalculation
    /\ ~LookupFails
    /\ SuppliedRate = LendingCap
    /\ outcome.kind = "return"
    /\ outcome.value.final_suggestion = LendingCap

\* C2: with a working rate lookup every rate above 4 * LPR is rejected with
\* InvalidParams (code -32602) whose details carry risk_level Critical, a
\* legal basis, limit = 4 * LPR exactly and provided = the supplied rate.
C2_RejectionDetails ==
    ((IsDirectLendingCheck \/ IsLendingCalculation)
        /\ ~LookupFails /\ RLt(LendingCap, SuppliedRate)) =>
          /\ outcome.kind = "raise"
          /\ outcome.error.code = -32602
          /\ outcome.error.name = "INVALID_PARAMS"
          /\ DOMAIN outcome.error.details =
                {"risk_level", "legal_basis", "limit", "provided"}
          /\ outcome.error.details.risk_level = "Critical"
          /\ outcome.error.details.legal_basis = LENDING_LEGAL_BASIS
          /\ EqualsFraction(outcome.error.details.limit, 138, 1000)
          /\ outcome.error.details.provided = SuppliedRate

C2_Witness ==
    /\ IsDirectLendingCheck
    /\ ~LookupFails
    /\ SuppliedRate = R(1381, 10000)
    /\ outcome.kind = "raise"
    /\ outcome.error.details.provided = R(1381, 10000)

\* C3: when the benchmark-rate lookup fails, the private-lending check and
\* the private_lending scenario fail with the internal error (code -32001)
\* for every rate, also above the cap: never InvalidParams, never a success.
C3_LookupFailurePropagates ==
    ((IsDirectLendingCheck \/ IsLendingCalculation) /\ LookupFails) =>
          /\ outcome.kind = "raise"
          /\ outcome.error.code = -32001
          /\ outcome.error.name = "INTERNAL_ERROR"

C3_Witness ==
    /\ IsLendingCalculation
    /\ LookupFails
    /\ RLt(LendingCap, SuppliedRate)
    /\ outcome.kind = "raise"
    /\ outcome.error.code = -32001

\* ------------------------------------------------------------------------

IsCalculation == call.op = "calculate_liquidated_damages"
SuppliedScenario == Get(call.args, "scenario", PyStr("general_contract"))
IsGeneralCalculation ==
    /\ IsCalculation
    /\ SuppliedScenario \notin {PyStr("private_lending"), PyStr("labor_contract")}
IsEvaluation == call.op = "evaluate_judicial_discretion"
NonNegative(v) == v.n >= 0 /\ v.d > 0

\* C4: a computed penalty is never negative: whenever
\* calculate_liquidated_damages returns a result, in whatever scenario and
\* for whatever inputs, final_suggestion >= 0.
C4_PenaltyNeverNegative ==
    (IsCalculation /\ outcome.kind = "return") =>
        NonNegative(outcome.value.final_suggestion)

\* the factors of gamma = 0.3 * w1 * w2 reported by the last call, if any
ReportedComponents ==
    IF IsCalculation /\ outcome.kind = "return"
    THEN Get(outcome.value, "gamma_calculation", <<>>)
    ELSE IF IsEvaluation /\ outcome.kind = "return"
    THEN outcome.value.formula.components
    ELSE <<>>

Within(v, lo, hi) == RLe(lo, v) /\ RLe(v, hi)

\* C5: no unclamped value reaches the multiplication: in every calculation
\* that uses a weight object, by either entry point, the factors multiplied
\* into gamma satisfy w1 in [0, 1] and w2 = fault_score in [1, 2].
C5_FactorsWithinRange ==
    (DOMAIN ReportedComponents # {}) =>
        /\ Within(ReportedComponents["w1 (1 - performance)"], Zero, One)
        /\ Within(ReportedComponents["w2 (fault_score)"], One, Two)

IsDirectLaborCheck == call.op = "check_labor_contract_limit"
IsLaborCalculation == IsCalculation /\ SuppliedScenario = PyStr("labor_contract")
LaborTrainingCost ==
    IF IsDirectLaborCheck THEN call.args.training_cost
    ELSE Get(call.args, "training_cost", R(0, 1))
LaborTotalMonths ==
    IF IsDirectLaborCheck THEN call.args.total_months
    ELSE Get(call.args, "total_months", R(12, 1))
LaborRemainingMonths ==
    IF IsDirectLaborCheck THEN call.args.remaining_months
    ELSE Get(call.args, "remaining_months", R(0, 1))

\* v = (training_cost / total_months) * remaining_months
IsLaborCeiling(v) ==
    EqualsFraction(v,
        LaborTrainingCost.n * LaborTotalMonths.d * LaborRemainingMonths.n,
        LaborTrainingCost.d * LaborTotalMonths.n * LaborRemainingMonths.d)

\* C6: the labor check and the labor_contract scenario fail with
\* InvalidParams exactly when total_months <= 0; for total_months > 0 they
\* return (training_cost / total_months) * remaining_months whatever the
\* amount, and the scenario result carries that ceiling as final_suggestion
\* with exactly one annotation, citing the Labor Contract Law.
C6_LaborCeiling ==
    /\ (IsDirectLaborCheck \/ IsLaborCalculation) =>
          /\ (outcome.kind = "raise") <=> (LaborTotalMonths.n <= 0)
          /\ outcome.kind = "raise" => outcome.error.code = -32602
    /\ (IsDirectLaborCheck /\ outcome.kind = "return") => IsLaborCeiling(outcome.value)
    /\ (IsLaborCalculation /\ outcome.kind = "return") =>
          /\ IsLaborCeiling(outcome.value.final_suggestion)
          /\ Len(outcome.value.adjustments) = 1
          /\ outcome.value.adjustments[1].legal_basis = LABOR_LEGAL_BASIS

C6_Witness ==
    /\ IsLaborCalculation
    /\ LaborTrainingCost = R(10000, 1)
    /\ LaborTotalMonths = R(60, 1)
    /\ LaborRemainingMonths = R(36, 1)
    /\ outcome.kind = "return"
    /\ outcome.value.final_suggestion = R(6000, 1)

\* the weight inputs of the last call, when they are numbers
WeightInputs ==
    IF IsGeneralCalculation /\ "discretionary_weight" \in DOMAIN call.args
    THEN [given |-> TRUE,
          p |-> call.args["discretionary_weight"].performance_ratio,
          f |-> call.args["discretionary_weight"].fault_score]
    ELSE IF IsEvaluation /\ IsNum(call.args.performance) /\ IsNum(call.args.fault)
    THEN [given |-> TRUE, p |-> call.args.performance, f |-> call.args.fault]
    ELSE [given |-> FALSE]

ReportedBaseLoss ==
    IF IsEvaluation THEN outcome.value.result.base_loss ELSE outcome.value["base_loss_L"]
ReportedPenalty ==
    IF IsEvaluation THEN outcome.value.result.suggested_penalty
    ELSE outcome.value.final_suggestion

\* C7: for performance_ratio in [0, 1] and fault_score in [1, 2] the reported
\* gamma equals 0.3 * (1 - performance_ratio) * fault_score and lies in
\* [0, 0.6], so the suggested penalty lies between L and 1.6 * L.
C7_GammaFormula ==
    (WeightInputs.given
        /\ Within(WeightInputs.p, R(0, 1), R(1, 1))
        /\ Within(WeightInputs.f, R(1, 1), R(2, 1))) =>
        /\ outcome.kind = "return"
        /\ EqualsFraction(ReportedComponents["gamma"],
                          3 * (WeightInputs.p.d - WeightInputs.p.n) * WeightInputs.f.n,
                          10 * WeightInputs.p.d * WeightInputs.f.d)
        /\ Within(ReportedComponents["gamma"], R(0, 1), R(6, 10))
        /\ RLe(ReportedBaseLoss, ReportedPenalty)
        /\ ReportedPenalty.n * 10 * ReportedBaseLoss.d
              <= 16 * ReportedBaseLoss.n * ReportedPenalty.d

C7_Witness ==
    /\ IsEvaluation
    /\ call.args.loss = R(10000, 1)
    /\ call.args.performance = R(1, 2)
    /\ call.args.fault = R(3, 2)
    /\ outcome.kind = "return"
    /\ ReportedComponents["gamma"] = R(225, 1000)
    /\ ReportedPenalty = R(12250, 1)

\* actual_loss + expectation_loss - mitigation_benefit of the last call, as
\* numerator and (positive) denominator
LossSum ==
    LET al == call.args["actual_loss"]
        el == Get(call.args, "expectation_loss", R(0, 1))
        mb == Get(call.args, "mitigation_benefit", R(0, 1))
    IN  [num |-> al.n * el.d * mb.d + el.n * al.d * mb.d - mb.n * al.d * el.d,
         den |-> al.d * el.d * mb.d]

AppliedGamma ==
    IF "discretionary_weight" \in DOMAIN call.args
    THEN outcome.value["gamma_calculation"]["gamma"]
    ELSE R(0, 1)

\* C8: in the general_contract and judicial_evaluation scenarios the result
\* reports L = max(0, actual_loss + expectation_loss - mitigation_benefit)
\* and final_suggestion = L * (1 + gamma), gamma being 0 and unreported when
\* no weight is supplied; when mitigation_benefit >= actual_loss +
\* expectation_loss the final amount is 0 whatever the weight.
C8_GeneralFormula ==
    IsGeneralCalculation =>
        /\ outcome.kind = "return"
        /\ "base_loss_L" \in DOMAIN outcome.value
        /\ IF LossSum.num < 0
           THEN outcome.value["base_loss_L"] = R(0, 1)
           ELSE EqualsFraction(outcome.value["base_loss_L"], LossSum.num, LossSum.den)
        /\ ("gamma_calculation" \in DOMAIN outcome.value)
              <=> ("discretionary_weight" \in DOMAIN call.args)
        /\ EqualsFraction(outcome.value.final_suggestion,
              outcome.value["base_loss_L"].n * (AppliedGamma.d + AppliedGamma.n),
              outcome.value["base_loss_L"].d * AppliedGamma.d)
        /\ LossSum.num <= 0 => outcome.value.final_suggestion = R(0, 1)

C8_Witness ==
    /\ IsGeneralCalculation
    /\ call.args["actual_loss"] = R(100, 1)
    /\ Get(call.args, "expectation_loss", R(0, 1)) = R(50, 1)
    /\ Get(call.args, "mitigation_benefit", R(0, 1)) = R(200, 1)
    /\ "discretionary_weight" \in DOMAIN call.args
    /\ call.args["discretionary_weight"].fault_score = R(2, 1)
    /\ call.args["discretionary_weight"].performance_ratio = R(0, 1)
    /\ outcome.kind = "return"
    /\ outcome.value["base_loss_L"] = R(0, 1)
    /\ outcome.value.final_suggestion = R(0, 1)

\* the last call's arguments with the consumer flag of the weight reversed
FlagReversed ==
    [call.args EXCEPT !["discretionary_weight"] =
        [@ EXCEPT !.is_consumer_contract = ~@]]

\* C9: two general-scenario calculations that differ only in
\* is_consumer_contract report the same gamma components, base loss and
\* final_suggestion; the flagged one carries exactly one annotation, citing
\* consumer-protection law, and the unflagged one carries none.
C9_ConsumerFlagNeutral ==
    (IsGeneralCalculation /\ "discretionary_weight" \in DOMAIN call.args) =>
        LET this == outcome.value
            that == calculate_liquidated_damages(FlagReversed).out.value
            flagged == IF call.args["discretionary_weight"].is_consumer_contract
                       THEN this ELSE that
            plain == IF call.args["discretionary_weight"].is_consumer_contract
                     THEN that ELSE this
        IN  /\ this["gamma_calculation"] = that["gamma_calculation"]
            /\ this["base_loss_L"] = that["base_loss_L"]
            /\ this.final_suggestion = that.final_suggestion
            /\ Len(flagged.adjustments) = 1
            /\ flagged.adjustments[1].legal_basis = CONSUMER_LEGAL_BASIS
            /\ plain.adjustments = <<>>

C9_Witness ==
    /\ IsGeneralCalculation
    /\ "discretionary_weight" \in DOMAIN call.args
    /\ call.args["discretionary_weight"].is_consumer_contract
    /\ call.args["discretionary_weight"].performance_ratio = R(1, 2)
    /\ outcome.kind = "return"
    /\ Len(outcome.value.adjustments) = 1
    /\ RLt(R(0, 1), outcome.value.final_suggestion)

IsToolCalculation == call.op = "calculate_damages"
ToolScenario == Get(call.args, "scenario", None)
IsGeneralToolCalculation ==
    /\ IsToolCalculation
    /\ ToolScenario \notin {PyStr("private_lending"), PyStr("labor_contract")}

\* the last call's arguments with the tag replaced by general_contract
AsGeneralContract == ("scenario" :> PyStr("general_contract")) @@ call.args

\* C10: every scenario tag other than private_lending and labor_contract
\* (judicial_evaluation, an unknown string, a missing tag) is accepted and
\* yields the result of the general_contract formula on the same inputs,
\* with the supplied tag echoed in the result; this holds of
\* calculate_liquidated_damages and of the calculate_damages tool.
C10_DispatchTotal ==
    /\ IsGeneralCalculation =>
          /\ outcome.kind = "return"
          /\ outcome.value.scenario = SuppliedScenario
          /\ outcome.value =
                [calculate_liquidated_damages(AsGeneralContract).out.value
                    EXCEPT !.scenario = SuppliedScenario]
    /\ IsGeneralToolCalculation =>
          /\ outcome.kind = "return"
          /\ outcome.value[1].text.json.scenario = ToolScenario
          /\ outcome.value[1].text.json =
                [server_calculate_damages(AsGeneralContract,
                     outcome.value[1].text.json.causal_trace_id).out.value[1].text.json
                    EXCEPT !.scenario = ToolScenario]

C10_Witness ==
    /\ IsGeneralCalculation
    /\ SuppliedScenario = PyStr("unknown_tag")
    /\ "discretionary_weight" \in DOMAIN call.args
    /\ outcome.kind = "return"
    /\ outcome.value.scenario = PyStr("unknown_tag")
    /\ RLt(R(100, 1), outcome.value.final_suggestion)

\* ------------------------------------------------------------------------

\* the numeric part of a calculation result
CalculationNumbers(result) ==
    [base_loss |-> Get(result, "base_loss_L", None),
     components |-> Get(result, "gamma_calculation", <<>>),
     final |-> result.final_suggestion]

\* the numeric part of an evaluation report
ReportNumbers(report) ==
    [loss |-> report.inputs.loss.value,
     performance |-> report.inputs.performance.value,
     fault |-> report.inputs.fault.value,
     components |-> report.formula.components,
     base_loss |-> report.result.base_loss,
     penalty |-> report.result.suggested_penalty]

\* what a call hands back, with the numbers of a result singled out
ToolNumbers(out) ==
    IF out.kind = "return" THEN CalculationNumbers(out.value[1].text.json) ELSE out
EvaluationNumbers(out) ==
    IF out.kind = "return" THEN ReportNumbers(out.value) ELSE out

HasOnlyNumbers ==
    /\ IsEvaluation
    /\ IsNum(call.args.loss) /\ IsNum(call.args.performance) /\ IsNum(call.args.fault)

\* C11: determinism: a calculate_damages call, or an
\* evaluate_judicial_discretion call without reference tokens, returns the
\* numeric results (base loss, gamma components, final or suggested amount)
\* that any other invocation with the same inputs returns, whatever the
\* identifier store holds by then and whatever trace or evaluation
\* identifier that invocation is given.
C11_Determinism ==
    /\ IsToolCalculation =>
          \A trace \in TraceIds :
              ToolNumbers(server_calculate_damages(call.args, trace).out)
                  = ToolNumbers(outcome)
    /\ HasOnlyNumbers =>
          \A store \in InitialStores, id \in EvalIds :
              EvaluationNumbers(
                  evaluate_judicial_discretion(call.args.loss, call.args.performance,
                      call.args.fault, call.args.contract_pid, store, id).out)
                  = EvaluationNumbers(outcome)

C11_Witness ==
    /\ HasOnlyNumbers
    /\ pids = InRangeStore
    /\ call.args.performance = R(1, 2)
    /\ call.args.fault = R(3, 2)
    /\ outcome.kind = "return"
    /\ outcome.value.evaluation_id = "eval-2"
    /\ outcome.value.result.suggested_penalty = R(12250, 1)

\* ------------------------------------------------------------------------

\* v brought into [lo, hi], lo and hi being integers
ClampedTo(v, lo, hi) ==
    IF v.n < lo * v.d THEN R(lo, 1)
    ELSE IF v.n > hi * v.d THEN R(hi, 1)
    ELSE v

\* C12: evaluate_judicial_discretion never fails on out-of-range numeric
\* input: for every numeric performance and fault it returns a report whose
\* inputs.performance.value is the input clamped to [0, 1] and whose
\* inputs.fault.value is the input clamped to [1, 2]; whenever
\* performance >= 1 the reported gamma is 0 and the suggested penalty equals
\* the base loss.
C12_Clamping ==
    (IsEvaluation /\ IsNum(call.args.performance) /\ IsNum(call.args.fault)) =>
        /\ outcome.kind = "return"
        /\ outcome.value.inputs.performance.value = ClampedTo(call.args.performance, 0, 1)
        /\ outcome.value.inputs.fault.value = ClampedTo(call.args.fault, 1, 2)
        /\ call.args.performance.n >= call.args.performance.d =>
              /\ outcome.value.formula.components["gamma"] = R(0, 1)
              /\ outcome.value.result.suggested_penalty = outcome.value.result.base_loss

C12_Witness ==
    /\ IsEvaluation
    /\ call.args.loss = R(10000, 1)
    /\ call.args.performance = R(3, 2)
    /\ call.args.fault = R(1, 2)
    /\ outcome.kind = "return"
    /\ outcome.value.inputs.performance.value = R(1, 1)
    /\ outcome.value.inputs.fault.value = R(1, 1)
    /\ outcome.value.formula.components["gamma"] = R(0, 1)
    /\ outcome.value.result.suggested_penalty = R(10000, 1)
    /\ Len(log) = 3

\* ------------------------------------------------------------------------

IsToken(param) == IsStr(param) /\ param.prefix = "legal://pid/"

\* param is a reference token whose stored record holds the field key
SlotHolds(param, key) ==
    /\ IsToken(param)
    /\ param.rest \in DOMAIN pids
    /\ IsDict(pids[param.rest].content)
    /\ key \in DOMAIN pids[param.rest].content.f

StoredField(param, key) == pids[param.rest].content.f[key]

\* the number a slot stands for: the raw number, or the stored field
SlotNumber(param, key) == IF IsNum(param) THEN param ELSE StoredField(param, key)
SlotGiven(param, key) == IsNum(param) \/ SlotHolds(param, key)

\* the penalty of the evaluation of the numbers the three slots stand for
PenaltyFromNumbers ==
    evaluate_judicial_discretion(SlotNumber(call.args.loss, "amount"),
                                 SlotNumber(call.args.performance, "ratio"),
                                 SlotNumber(call.args.fault, "score"),
                                 call.args.contract_pid, pids, "eval-1")
        .out.value.result.suggested_penalty

UsesResolvedToken ==
    /\ IsEvaluation
    /\ SlotGiven(call.args.loss, "amount")
    /\ SlotGiven(call.args.performance, "ratio")
    /\ SlotGiven(call.args.fault, "score")
    /\ \/ IsToken(call.args.loss)
       \/ IsToken(call.args.performance)
       \/ IsToken(call.args.fault)

\* a slot of the report names the token it was resolved from
SourceIs(slot, param) == outcome.value.inputs[slot].source_pid = param

\* C13: reference resolution: when an input of evaluate_judicial_discretion
\* is a reference token H whose stored record holds the slot's named field
\* (amount for loss, ratio for performance, score for fault), the report's
\* value for that slot equals the stored field and its source_pid equals H,
\* and the suggested penalty equals the one computed from the same values
\* given as raw numbers.
C13_ReferenceResolution ==
    IsEvaluation =>
        /\ SlotHolds(call.args.loss, "amount") =>
              /\ outcome.kind = "return"
              /\ outcome.value.inputs.loss.value = StoredField(call.args.loss, "amount")
              /\ SourceIs("loss", call.args.loss)
        /\ SlotHolds(call.args.performance, "ratio") =>
              /\ outcome.kind = "return"
              /\ outcome.value.inputs.performance.value
                    = StoredField(call.args.performance, "ratio")
              /\ SourceIs("performance", call.args.performance)
        /\ SlotHolds(call.args.fault, "score") =>
              /\ outcome.kind = "return"
              /\ outcome.value.inputs.fault.value = StoredField(call.args.fault, "score")
              /\ SourceIs("fault", call.args.fault)
        /\ UsesResolvedToken =>
              outcome.value.result.suggested_penalty = PenaltyFromNumbers

\* C13 (amended): as above, except that the reported performance is the
\* stored ratio clamped to [0, 1] and the reported fault the stored score
\* clamped to [1, 2]; the reported loss is the stored amount itself.
C13_ReferenceResolutionClamped ==
    IsEvaluation =>
        /\ SlotHolds(call.args.loss, "amount") =>
              /\ outcome.kind = "return"
              /\ outcome.value.inputs.loss.value = StoredField(call.args.loss, "amount")
              /\ SourceIs("loss", call.args.loss)
        /\ SlotHolds(call.args.performance, "ratio") =>
              /\ outcome.kind = "return"
              /\ outcome.value.inputs.performance.value
                    = ClampedTo(StoredField(call.args.performance, "ratio"), 0, 1)
              /\ SourceIs("performance", call.args.performance)
        /\ SlotHolds(call.args.fault, "score") =>
              /\ outcome.kind = "return"
              /\ outcome.value.inputs.fault.value
                    = ClampedTo(StoredField(call.args.fault, "score"), 1, 2)
              /\ SourceIs("fault", call.args.fault)
        /\ UsesResolvedToken =>
              outcome.value.result.suggested_penalty = PenaltyFromNumbers

C13_Witness ==
    /\ IsEvaluation
    /\ pids = OutOfRangeStore
    /\ call.args.loss = PidUri("h1")
    /\ call.args.performance = PidUri("h2")
    /\ call.args.fault = PidUri("h3")
    /\ outcome.kind = "return"
    /\ outcome.value.inputs.loss = [value |-> R(5000, 1), source_pid |-> PidUri("h1")]
    /\ outcome.value.inputs.performance = [value |-> R(1, 1), source_pid |-> PidUri("h2")]
    /\ outcome.value.inputs.fault = [value |-> R(2, 1), source_pid |-> PidUri("h3")]
    /\ outcome.value.result.suggested_penalty = R(5000, 1)

\* ------------------------------------------------------------------------

\* param is a reference token that names no stored record
Unresolvable(param) == IsToken(param) /\ param.rest \notin DOMAIN pids

ResolutionWarnings ==
    {i \in 1..Len(log) : log[i].level = "warning" /\ log[i].text = "Failed to resolve PID"}

UnresolvableSlots ==
    {slot \in {"loss", "performance", "fault"} : Unresolvable(call.args[slot])}

\* C14: degrade-to-zero: a reference token that names no stored record never
\* makes evaluate_judicial_discretion fail: the report is returned, the
\* slot's source_pid is null and its value is 0 brought into the slot's
\* range (0 for loss and performance, 1 for fault), one warning is logged
\* per such token, and an unresolvable loss yields a suggested penalty of 0.
C14_DegradeToZero ==
    (IsEvaluation /\ UnresolvableSlots # {}) =>
        /\ outcome.kind = "return"
        /\ \A slot \in UnresolvableSlots :
              outcome.value.inputs[slot] =
                  [value |-> IF slot = "fault" THEN R(1, 1) ELSE R(0, 1),
                   source_pid |-> None]
        /\ Cardinality(ResolutionWarnings) = Cardinality(UnresolvableSlots)
        /\ "loss" \in UnresolvableSlots =>
              outcome.value.result.suggested_penalty = R(0, 1)

C14_Witness ==
    /\ IsEvaluation
    /\ pids = InRangeStore
    /\ call.args.loss = PidUri("missing")
    /\ call.args.performance = R(1, 2)
    /\ call.args.fault = PidUri("missing")
    /\ outcome.kind = "return"
    /\ outcome.value.inputs.loss = [value |-> R(0, 1), source_pid |-> None]
    /\ outcome.value.inputs.fault = [value |-> R(1, 1), source_pid |-> None]
    /\ outcome.value.result.suggested_penalty = R(0, 1)

\* ------------------------------------------------------------------------

IsResolution == call.op = "resolve_pid_or_value"

\* what the provider holds for a token: the stored content, or None
ProviderReports(token) ==
    IF token.rest \in DOMAIN pids THEN pids[token.rest].content ELSE None

\* C15: resolver pass-through: for every value that is not a reference-token
\* string (a number, or a string not starting with 'legal://pid/')
\* resolve_pid_or_value returns the value unchanged and performs no lookup
\* on the provider; for a reference token it performs the lookup and returns
\* the stored content, or the absent marker when the provider reports none.
C15_ResolverPassThrough ==
    IsResolution =>
        IF IsToken(call.args.value)
        THEN /\ outcome.value.lookups = 1
             /\ outcome.value.val = ProviderReports(call.args.value)
        ELSE /\ outcome.value.lookups = 0
             /\ outcome.value.val = call.args.value

\* ------------------------------------------------------------------------

\* every record of store that carries an issued handle holds the content
\* the handle was issued for
HoldsIssuedContent(store) ==
    \A h \in DOMAIN store \cap DOMAIN issued : store[h].content = issued[h].content

\* every record of before is in after, as it was
Keeps(before, after) ==
    \A h \in DOMAIN before : h \in DOMAIN after /\ after[h] = before[h]

\* after is before with exactly one record more, under a handle never
\* issued, holding the published content, and the call returned its token
AddsOne(before, after) ==
    /\ Keeps(before, after)
    /\ \E h \in DOMAIN after \ DOMAIN issued :
          /\ DOMAIN after = DOMAIN before \cup {h}
          /\ h \notin DOMAIN before
          /\ after[h].content = call'.args.content
          /\ outcome' = Return(PidUri(h))

AppendOnlyStep ==
    /\ (call'.op = "generate_pid" /\ call'.args.provider = "server") =>
          AddsOne(pids, pids') /\ peer' = peer
    /\ (call'.op = "generate_pid" /\ call'.args.provider = "peer") =>
          AddsOne(peer, peer') /\ pids' = pids
    /\ call'.op # "LegalResourceProvider" => Keeps(pids, pids') /\ Keeps(peer, peer')

AllSavesSucceeded == \A h \in DOMAIN issued : issued[h].save = "written"

\* a provider constructed now over the persistence file holds, under
\* handle h, a record with the content h was issued for
LoadedHolds(h) ==
    /\ h \in DOMAIN _load_pids(file)
    /\ _load_pids(file)[h].content = issued[h].content

\* C17: concurrent writers do not collide without a lock: when provider
\* instances backed by the same persistence file interleave generate_pid
\* calls in any order (every save succeeding), every record any of them
\* created is present in the persisted store afterwards and resolvable by a
\* provider loaded from that file.
C17_NoLostRecords ==
    AllSavesSucceeded => \A h \in DOMAIN issued : LoadedHolds(h)

\* C18: persistence round-trip: once generate_pid(content, metadata) has
\* returned token H, a provider constructed later over the same persistence
\* file retrieves for H exactly the content that was published, and the
\* token starts with the PID prefix 'legal://pid/'.
C18_PersistenceRoundTrip ==
    /\ (call.op = "generate_pid" /\ outcome.kind = "return") =>
          outcome.value.prefix = "legal://pid/"
    /\ \A h \in DOMAIN issued :
          get_resource_by_pid(_load_pids(file), PidUri(h)) = issued[h].content

\* ------------------------------------------------------------------------

\* the step is a get_resource_content call for a known resource: a stored
\* PID or a registered static resource
KnownResource(uri) ==
    \/ IsToken(uri) /\ uri.rest \in DOMAIN pids
    \/ ~IsToken(uri) /\ uri \in StaticResources

ResourceBody(uri) ==
    IF IsToken(uri) THEN pids[uri.rest].content ELSE StaticContent(uri)

KnownContent(uri) ==
    \/ IsToken(uri) /\ uri.rest \in DOMAIN pids /\ pids[uri.rest].content # None
    \/ ~IsToken(uri) /\ uri \in StaticResources

IsToolCall == call.op = "call_tool"

\* the payload the tool-call handler handed back
Payload == outcome.value[1].text.json

\* the payload reports a rejection
IsRejection == IsToolCall /\ "code" \in DOMAIN Payload

\* a rejection by a red line: an InvalidInput that is not the unknown-tool one
IsRedLineRejection ==
    /\ IsRejection
    /\ Payload.code = -32602
    /\ call.args.name \in {"calculate_damages", "evaluate_judicial_discretion"}

\* C20: every rejection surfaced to a caller of the tool-call boundary has
\* the payload shape {code, kind name, message, details}; every red-line
\* InvalidInput rejection carries in details the structured fields
\* risk_level, legal_basis, limit and provided, and details is present and
\* empty for every other rejection (Unavailable, unknown tool, unexpected
\* fault).
C20_ErrorPayloadShape ==
    IsRejection =>
        /\ DOMAIN Payload = {"code", "error", "message", "details"}
        /\ IF IsRedLineRejection
           THEN {"risk_level", "legal_basis", "limit", "provided"}
                    \subseteq DOMAIN Payload.details
           ELSE DOMAIN Payload.details = {}

\* ------------------------------------------------------------------------

\* an argument of the last tool call, or the default the entry point uses
ToolArgument(key, default) == Get(call.args.arguments, key, default)

IsDamagesToolCall == IsToolCall /\ call.args.name = "calculate_damages"

\* what the red-line check of the calculation layer does on the arguments of
\* the last tool call
LayerOutcome ==
    IF ToolArgument("scenario", None) = PyStr("private_lending")
    THEN check_private_lending_interest(ToolArgument("rate", Zero),
                                        ToolArgument("simulate_db_failure", FALSE)).out
    ELSE IF ToolArgument("scenario", None) = PyStr("labor_contract")
    THEN check_labor_contract_limit(ToolArgument("training_cost", Zero),
                                    ToolArgument("total_months", Zero),
                                    ToolArgument("remaining_months", Zero)).out
    ELSE Return(None)

\* the calculation layer raises on the last tool call, which got past the gate
LayerRaises ==
    /\ IsDamagesToolCall
    /\ ~check_elicitation_requirement(call.args.arguments)
    /\ LayerOutcome.kind = "raise"

\* the last tool call runs into a fault that is no typed failure
OtherFault ==
    /\ IsDamagesToolCall
    /\ ~check_elicitation_requirement(call.args.arguments)
    /\ IllTyped(call.args.arguments)

\* C21: the tool-call handler never lets a failure of tool execution escape
\* as an exception; an InvalidInput or Unavailable raised by the calculation
\* layer reaches the caller with its kind, code (-32602 / -32001), message
\* and details unchanged, and any other fault raised during tool execution
\* is surfaced as a generic internal-error payload with code -32001.
C21_BoundaryPropagation ==
    IsToolCall =>
        /\ outcome.kind = "return"
        /\ LayerRaises =>
              /\ Payload.code = LayerOutcome.error.code
              /\ Payload.code \in {-32602, -32001}
              /\ Payload.error = LayerOutcome.error.name
              /\ Payload.message = LayerOutcome.error.message
              /\ Payload.details = LayerOutcome.error.details
        /\ OtherFault =>
              /\ Payload.code = -32001
              /\ Payload.error = "Internal Error"

\* an Unavailable raised by the rate lookup has reached the caller
C21_Witness ==
    /\ LayerRaises
    /\ LayerOutcome.error.code = -32001
    /\ Payload.code = -32001
    /\ Payload.error = "INTERNAL_ERROR"

\* ------------------------------------------------------------------------

\* the step is a call of the named tool through the tool-call handler
CallsTool(name) == call'.op = "call_tool" /\ call'.args.name = name

\* the call the step made came back with a result, not with a rejection
Succeeds == "code" \notin DOMAIN outcome'.value[1].text.json

StoreUntouched == pids' = pids /\ file' = file

\* the step added exactly one record to the provider and kept the others
OneRecordMore ==
    /\ Keeps(pids, pids')
    /\ Cardinality(DOMAIN pids' \ DOMAIN pids) = 1

NoPersistenceStep ==
    /\ (CallsTool("calculate_damages") \/ CallsTool("evaluate_judicial_discretion")) =>
          StoreUntouched
    /\ CallsTool("check_contract_risk") =>
          IF Succeeds THEN OneRecordMore ELSE StoreUntouched
    /\ (~StoreUntouched /\ call'.op # "LegalResourceProvider") =>
          CallsTool("check_contract_risk") /\ Succeeds

\* C22: no invocation of calculate_damages or evaluate_judicial_discretion,
\* successful or failing, adds, changes or removes an identifier record;
\* the store of a provider is changed only by identifier generation, which
\* the check_contract_risk tool performs exactly once per successful call
\* (and not at all in a failing one).
C22_NoPersistenceSideEffects == [][NoPersistenceStep]_vars

\* a second report has been published and its record added
C22_Witness ==
    /\ IsToolCall
    /\ call.args.name = "check_contract_risk"
    /\ "report_pid" \in DOMAIN Payload
    /\ Payload.report_pid.rest \in DOMAIN pids
    /\ Cardinality(DOMAIN pids) = 2

\* ------------------------------------------------------------------------

\* the correlation identifier the caller supplied, None when it supplied none
SuppliedTraceId == Get(call.args, "causal_trace_id", None)

\* C23: each invocation of the damages calculator emits exactly one log
\* entry, in every scenario and whether it succeeds or fails; the entry
\* carries a correlation identifier, the caller-supplied one when one was
\* supplied and a generated one otherwise, and a returned result reports
\* that same identifier as its trace identifier.
C23_OneLogEntryPerInvocation ==
    IsCalculation =>
        /\ Len(log) = 1
        /\ log[1].trace_id # None
        /\ SuppliedTraceId # None => log[1].trace_id = SuppliedTraceId
        /\ outcome.kind = "return" => outcome.value.causal_trace_id = log[1].trace_id

\* ------------------------------------------------------------------------

\* param is a reference token that resolves to stored content: a record or
\* a bare number
ResolvesToContent(param) ==
    /\ IsToken(param)
    /\ param.rest \in DOMAIN pids
    /\ IsDict(pids[param.rest].content) \/ IsNum(pids[param.rest].content)

\* the report's source_pid of a slot is right for the input given
ProvenanceOf(slot, param) ==
    /\ ResolvesToContent(param) => SourceIs(slot, param)
    /\ IsNum(param) => SourceIs(slot, None)

\* C24: for each of the three inputs of evaluate_judicial_discretion, the
\* report's source_pid is the original reference token whenever the input
\* was a reference token that resolved to stored content of any form (a
\* record or a bare number), and is null whenever the input was a raw value.
C24_Provenance ==
    IsEvaluation =>
        /\ ProvenanceOf("loss", call.args.loss)
        /\ ProvenanceOf("performance", call.args.performance)
        /\ ProvenanceOf("fault", call.args.fault)

\* ------------------------------------------------------------------------

IsFormula == call.op = "general_formula"

\* the final amount for the base loss of the last call and another weight
AmountWith(performance_ratio, fault_score) ==
    FloatPenalty(call.args.base_loss, performance_ratio, fault_score)

\* the final amount is non-increasing in performance_ratio and
\* non-decreasing in fault_score
WeaklyMonotone ==
    /\ \A p \in FloatRatios :
          RLe(p, call.args.performance_ratio) =>
              RLe(outcome.value.final_suggestion, AmountWith(p, call.args.fault_score))
    /\ \A f \in FloatFaults :
          RLe(call.args.fault_score, f) =>
              RLe(outcome.value.final_suggestion, AmountWith(call.args.performance_ratio, f))

ContainsKeyword(arguments) ==
    \E key \in DOMAIN arguments, keyword \in SensitiveFields :
        \/ Occurs(keyword, Lower(key))
        \/ /\ key # "simulate_db_failure"
           /\ arguments[key].t = "str"
           /\ Occurs(keyword, Lower(arguments[key].rest))

\* the call of the step logged an entry with the text
Logged(text) == \E i \in DOMAIN log' : log'[i].text = text

\* the payload the call of the step came back with
PayloadAfter == outcome'.value[1].text.json

\* the call of the step was stopped at the gate, before any tool logic
StoppedAtGate ==
    /\ "code" \in DOMAIN PayloadAfter
    /\ PayloadAfter.code = 3001
    /\ PayloadAfter.error = "ELICITATION_REQUIRED"
    /\ StoreUntouched
    /\ issued' = issued
    /\ ~Logged("Starting calculation for scenario")
    /\ ~Logged("Generated PID")

\* the call of the step got past the gate and the tool named ran
ToolRan ==
    /\ "code" \in DOMAIN PayloadAfter => PayloadAfter.code # 3001
    /\ ~Logged("Elicitation required")
    /\ CallsTool("calculate_damages") => Logged("Starting calculation for scenario")
    /\ CallsTool("evaluate_judicial_discretion") =>
          "evaluation_id" \in DOMAIN PayloadAfter
    /\ (CallsTool("check_contract_risk") /\ "code" \notin DOMAIN PayloadAfter) =>
          Logged("Generated PID") /\ OneRecordMore

ElicitationStep ==
    call'.op = "call_tool" =>
        IF ContainsKeyword(call'.args.arguments) THEN StoppedAtGate ELSE ToolRan

\* C26: whenever the arguments of a tool call contain a sensitive-field
\* keyword (in a key or a value), the handler returns an
\* ELICITATION_REQUIRED error (code 3001) and no tool logic has run for that
\* call (no calculation, no identifier record created); when no keyword is
\* present the gate returns nothing and the named tool runs.
C26_ElicitationGate == [][ElicitationStep]_vars

\* a check_contract_risk call on a text that names a keyword was stopped,
\* with a report published earlier still the only record
C26_Witness ==
    /\ IsToolCall
    /\ call.args.name = "check_contract_risk"
    /\ ContainsKeyword(call.args.arguments)
    /\ Payload.code = 3001
    /\ Cardinality(DOMAIN pids) = 1

\* ------------------------------------------------------------------------

\* a returned content went through inject_compliance_metadata and
\* mask_sensitive_data
PostProcessed(content) ==
    /\ "masked" \in DOMAIN content.text
    /\ "metadata" \in DOMAIN content.text.json
    /\ "gb_45438_compliance" \in DOMAIN content.text.json["metadata"]

\* C27: every text payload the tool-call handler returns to the caller, on
\* success paths and on every error path alike, has passed through
\* compliance-metadata injection and sensitive-data masking before it is
\* returned.
C27_AllPayloadsPostProcessed ==
    IsToolCall => \A i \in DOMAIN outcome.value : PostProcessed(outcome.value[i])

\* ------------------------------------------------------------------------

\* the record the provider holds under an issued handle is as published:
\* the content generate_pid was given, hashed by the stored hash, and the
\* same as the content persisted for the handle
AsPublished(h) ==
    /\ pids[h].content = issued[h].content
    /\ pids[h].content_hash = ContentHash(pids[h].content)
    /\ (file.state = "json" /\ h \in DOMAIN file.doc) =>
          file.doc[h].content = pids[h].content

\* C28: the content of a published identifier record never changes after
\* generate_pid returns; through any later operations, including the
\* remainder of the check_contract_risk tool that published it, the
\* record's stored content_hash stays equal to the hash of its stored
\* content and the provider's in-memory content stays equal to the content
\* persisted to the file.
C28_RecordIntegrity ==
    \A h \in DOMAIN pids \cap DOMAIN issued : AsPublished(h)

\* ------------------------------------------------------------------------

\* the last call resolved a reference token
ResolvedToken == IsResolution /\ IsToken(call.args.value)

\* C29: resolve_pid_or_value returns the absent marker for a reference
\* token only if no record with that handle exists in the store; every
\* token whose handle is stored resolves to exactly its stored content,
\* whatever that content is (an empty record or the number 0 included),
\* consistently with get_resource_content succeeding on the same token.
C29_ResolutionAgreesWithStore ==
    ResolvedToken =>
        /\ outcome.value.val = None => call.args.value.rest \notin DOMAIN pids
        /\ call.args.value.rest \in DOMAIN pids =>
              /\ outcome.value.val = pids[call.args.value.rest].content
              /\ get_resource_content(pids, call.args.value).out.kind = "return"

\* ------------------------------------------------------------------------

\* what calculate_liquidated_damages does when invoked with the arguments
\* supplied to the tool (actual_loss, which it requires, being 0 when the
\* caller left it out)
CoreOutcome ==
    calculate_liquidated_damages(("actual_loss" :> Get(call.args, "actual_loss", Zero))
                                 @@ call.args).out

\* C30: the calculate_damages tool entry point refines the calculation
\* core: for every argument set a caller may supply, arguments left out
\* included, the entry point returns the same outcome (the same final
\* amount, or the same failure kind) as calculate_liquidated_damages
\* invoked with those same supplied arguments.
C30_ToolRefinesCore ==
    IsToolCalculation =>
        IF CoreOutcome.kind = "return"
        THEN /\ outcome.kind = "return"
             /\ outcome.value[1].text.json.final_suggestion
                   = CoreOutcome.value.final_suggestion
        ELSE /\ outcome.kind = "raise"
             /\ outcome.error.code = CoreOutcome.error.code

====
